---- MODULE Spec2Model ----
(***************************************************************************)
(* Verification model of ShorelarkCpp: the genetic-algorithm orchestrator, *)
(* the Simulation step/train/evolve state machine, the parameter-sweep     *)
(* batch runner (simulation_runner) and the threading of the simulation    *)
(* window.                                                                 *)
(*                                                                         *)
(* Conventions.                                                            *)
(*  - C++ vectors are sequences; indices are 1-based here (index i of the  *)
(*    model is index i-1 of the code).                                     *)
(*  - A float drawn from the generator is an integer number of 1/RngSteps  *)
(*    units; a probability is a pair <<num, den>>; comparisons are exact.  *)
(*  - tl::expected<T, E> is a record with ok = TRUE and the value fields,  *)
(*    or ok = FALSE and the error code.                                    *)
(*  - Each subsystem has its own specification (SpecGA, SpecSim, SpecRun,  *)
(*    SpecUI); a specification keeps the variables of the other subsystems *)
(*    at their initial values.                                             *)
(***************************************************************************)
EXTENDS Integers, Sequences, FiniteSets, TLC

VARIABLES
    \* ---- genetic_algorithm<T>::evolve, one call ----
    ga_in,          \* [population, ga]: the arguments of the call
    ga_out,         \* the tl::expected returned by the call
    ga_pc,          \* "ready" before the call, "done" after it
    \* ---- simulation::simulation ----
    config,         \* config_
    animals,        \* world_.animals_
    foods,          \* world_.foods_ (positions abstracted: the number of foods)
    age_,           \* age_
    generation_,    \* generation_
    sim_result,     \* outcome of the last step(): nullopt, statistics, or an exception
    train_pc,       \* "idle", or "running" while train() loops
    train_steps,    \* number of step() calls made by the current/last train()
    train_from,     \* [age, generation] at the moment train() was called
    individuals,    \* fitness of the individuals handed to the last successful evolve
    \* ---- simulation_runner::run ----
    run_pc,         \* position of the thread that called run()
    next_task,      \* index of the loop that schedules the tasks, then of the loop of get()
    tasks,          \* per task: its state in the executor and its position in run_simulation
    log_entries,    \* the vector the workers append to; log_entries[t] holds the entries
                    \* <<iteration, generation>> of task t in the order they stand in it
    log_mutex,      \* 0 when free, else the task that holds it
    done_steps,     \* std::atomic<size_t> done_steps
    is_done,        \* std::atomic<bool> is_done
    mon_pc,         \* position of progress_thread in monitor_progress
    final_steps,    \* the count the final summary line reports
    summary_lines,  \* number of "Completed ..." lines logged
    results_saved,  \* save_results(log_entries) was called
    \* ---- simulation_window ----
    sim_thread_pc,          \* position of simulation_thread_ in simulation_thread_function
    gui_pc,                 \* position of the GUI thread in the handlers of the window
    paused_,                \* std::atomic<bool> paused_
    evolution_in_progress_, \* std::atomic<bool> evolution_in_progress_
    thread_should_exit_,    \* std::atomic<bool> thread_should_exit_
    gui_data_mutex_,        \* "free", or the thread that holds it
    was_paused,             \* the local was_paused of simulation_window::train
    train_generations,      \* generations train() has still to run
    \* ---- simulation::process_collisions on a world with positions, one call ----
    col_in,         \* [config, animals, foods]: the simulation the call is made on
    col_out,        \* [animals, foods, relocated]: the world the call leaves
    col_pc,         \* "ready" before the call, "done" after it
    \* ---- simulation::evolve up to the inversion of the fitness, one call ----
    snap_in,        \* [config, animals]: the simulation the call is made on
    snap_out,       \* [individuals, animals]: the snapshot built and the animals of the world
    snap_pc,        \* "ready" before the call, "done" after it, "fault" if it faulted
    \* ---- simulation::animal, one animal through the steps of a simulation ----
    ani_cfg,        \* config.sim
    ani,            \* [position, rotation, speed]: position_, rotation_, speed_
    ani_new,        \* <<new_x, new_y>> of the last process_movement, before wrap
    ani_pc,         \* the call that comes next: "process_brain" or "process_movement"
    \* ---- simulation_runner::generate_combinations, one call ----
    options,        \* const parameter_options options
    combinations,   \* the vector the call returns
    gc_pc,          \* "ready" before the call, "done" after it
    \* ---- neural_network::network, from_weights and then weights() ----
    net_topology,   \* the topology handed to from_weights: neurons of each layer
    net_weights,    \* the flat weights handed to from_weights
    net_result,     \* what the call of from_weights produced
    net_flat,       \* what weights() returned on the network built
    net_pc,         \* "ready", then "returned" or "terminated", then "flattened"
    \* ---- one call of an operation of a library, on arguments of its own ----
    op_in,          \* the object the operation is called on and its arguments
    op_out,         \* what the call returned, with the random draws it made
    op_pc           \* "ready" before the call, "done" after it

ga_vars  == <<ga_in, ga_out, ga_pc>>
sim_vars == <<config, animals, foods, age_, generation_, sim_result,
              train_pc, train_steps, train_from, individuals>>
run_vars == <<run_pc, next_task, tasks, log_entries, log_mutex, done_steps, is_done,
              mon_pc, final_steps, summary_lines, results_saved>>
ui_vars  == <<sim_thread_pc, gui_pc, paused_, evolution_in_progress_, thread_should_exit_,
              gui_data_mutex_, was_paused, train_generations>>
col_vars == <<col_in, col_out, col_pc>>
snap_vars == <<snap_in, snap_out, snap_pc>>
ani_vars == <<ani_cfg, ani, ani_new, ani_pc>>
gc_vars  == <<options, combinations, gc_pc>>
net_vars == <<net_topology, net_weights, net_result, net_flat, net_pc>>
op_vars  == <<op_in, op_out, op_pc>>
lib_vars == <<col_vars, snap_vars, ani_vars, gc_vars, net_vars, op_vars>>
vars     == <<ga_vars, sim_vars, run_vars, ui_vars, lib_vars>>

(***************************************************************************)
(* Bounds of the model.                                                    *)
(***************************************************************************)
RngSteps == 2            \* resolution of the random generator: draws are k/RngSteps
MaxPopulation == 2       \* largest population handed to genetic_algorithm::evolve
MaxFitness == 1          \* largest fitness of an individual handed to evolve
MaxGenes == 2            \* longest chromosome handed to evolve
MaxTournamentSize == 1   \* largest tournament_size_
MaxAnimals == 2          \* largest number of animals in the world
MaxFoods == 1            \* largest number of foods in the world
MaxGenerationLength == 1 \* largest config.sim.generation_length
MaxGeneration == 2       \* generations simulated before the model stops stepping
NumConfigs == 2          \* parameter combinations of the sweep (one task each)
Iterations == 2          \* iterations_
Generations == 2         \* generations_
PoolSize == 2            \* worker threads of the executor
MaxTrainGenerations == 2 \* largest number of generations asked of simulation_window::train
MaxFoodEaten == 4        \* largest food_eaten of an animal when evolve takes its snapshot
MaxSpeed == 2            \* largest config.sim.speed_max, in 1/RngSteps
MaxAxisValues == 2       \* values kept of each array of parameter_options
MaxLayers == 3           \* longest topology handed to network::from_weights
MaxNeurons == 3          \* most neurons of one layer of such a topology
MaxWeights == 6          \* most weights handed to network::from_weights
MaxSelected == 3         \* largest population handed to a selection strategy alone
MaxTournament == 3       \* largest tournament_size_ of such a strategy
MaxParentGenes == 3      \* longest parent handed to a crossover strategy alone
MaxMutatedGenes == 2     \* longest chromosome handed to a mutation strategy alone
MaxStrength == 2         \* largest mutation_strength_ of such a strategy
StreamLength == 3        \* draws a seed determines before the model repeats them
MaxRunPopulation == 2    \* largest population evolved by the two runs from one seed
MaxSlicedGenes == 2      \* longest chromosome at() and slice() are called on
SizeTypeValues == 8      \* values of size_type: 0 .. SizeTypeValues - 1 (2^64 in the build)
MaxLogEntries == 3       \* most entries of a log handed to run_analysis

\* constexpr float k_min_individual_fitness = 0.00001F: weights are in units of it
FitnessScale == 100000

Min(S) == CHOOSE x \in S : \A y \in S : x <= y
Max(S) == CHOOSE x \in S : \A y \in S : x >= y
Range(s) == {s[i] : i \in DOMAIN s}

RECURSIVE SumSeq(_, _)
SumSeq(s, n) == IF n = 0 THEN 0 ELSE SumSeq(s, n - 1) + s[n]

Err(code) == [ok |-> FALSE, error |-> code]

(***************************************************************************)
(* random_generator                                                        *)
(***************************************************************************)
\* The values default_distribution_ (uniform on [-1, 1)) can return, in 1/RngSteps.
RngDraws == {2 * k - RngSteps : k \in 0..(RngSteps - 1)}

generate_weight(d) == d

\* (default_distribution_(generator_) + 1.0F) / 2.0F, in 1/RngSteps
generate_position(d) == (d + RngSteps) \div 2

\* value (in 1/RngSteps) < probability (<<num, den>>)
LessThanProbability(value, probability) ==
    value * probability[2] < probability[1] * RngSteps

(***************************************************************************)
(* genetic::statistics                                                     *)
(***************************************************************************)
\* The k-th element of the sorted copy of the fitness values.
SortedFitnessAt(fitness_values, k) ==
    CHOOSE v \in Range(fitness_values) :
        /\ Cardinality({i \in DOMAIN fitness_values : fitness_values[i] < v}) < k
        /\ Cardinality({i \in DOMAIN fitness_values : fitness_values[i] <= v}) >= k

\* avg_fitness and median_fitness are exact fractions <<numerator, denominator>>.
from_population(population) ==
    IF population = <<>>
    THEN [min_fitness |-> 0, max_fitness |-> 0,
          avg_fitness |-> <<0, 1>>, median_fitness |-> <<0, 1>>]
    ELSE LET fitness_values == [i \in DOMAIN population |-> population[i].fitness]
             n == Len(population)
             mid == n \div 2
         IN [min_fitness    |-> Min(Range(fitness_values)),
             max_fitness    |-> Max(Range(fitness_values)),
             avg_fitness    |-> <<SumSeq(fitness_values, n), n>>,
             median_fitness |->
                 IF n % 2 = 0
                 THEN <<SortedFitnessAt(fitness_values, mid)
                          + SortedFitnessAt(fitness_values, mid + 1), 2>>
                 ELSE <<SortedFitnessAt(fitness_values, mid + 1), 1>>]

(***************************************************************************)
(* selection strategies                                                    *)
(***************************************************************************)
\* std::max(individual->get_fitness(), k_min_individual_fitness), in 1/FitnessScale
RouletteWeight(individual) ==
    IF individual.fitness * FitnessScale > 1 THEN individual.fitness * FitnessScale ELSE 1

RECURSIVE CumulativeFitness(_, _)
CumulativeFitness(population, i) ==
    IF i = 0 THEN 0
    ELSE CumulativeFitness(population, i - 1) + RouletteWeight(population[i])

\* d is the draw behind random.generate_position()
roulette_wheel_select(population, d) ==
    IF population = <<>>
    THEN Err("k_invalid_population_size")
    ELSE LET total_fitness == CumulativeFitness(population, Len(population))
             \* cumulative_fitness >= selection_point = position * total_fitness
             reached == {i \in 1..Len(population) :
                            CumulativeFitness(population, i) * RngSteps
                                >= generate_position(d) * total_fitness}
         IN [ok |-> TRUE,
             index |-> IF reached = {} THEN Len(population) ELSE Min(reached)]

\* The loop over the candidates comparing as if reversed_ were always false
RECURSIVE TournamentBest_never_reversed(_, _, _, _, _)
TournamentBest_never_reversed(population, reversed, tournament_indices, i, best_index) ==
    IF i > Len(tournament_indices) THEN best_index
    ELSE LET current_index == tournament_indices[i]
             current_fitness == population[current_index].fitness
             best_fitness == population[best_index].fitness
             is_better == current_fitness > best_fitness
         IN TournamentBest_never_reversed(population, reversed, tournament_indices, i + 1,
                                          IF is_better THEN current_index ELSE best_index)

RECURSIVE TournamentBest(_, _, _, _, _)
TournamentBest(population, reversed, tournament_indices, i, best_index) ==
    IF i > Len(tournament_indices) THEN best_index
    ELSE LET current_index == tournament_indices[i]
             current_fitness == population[current_index].fitness
             best_fitness == population[best_index].fitness
             is_better == IF reversed THEN current_fitness < best_fitness
                                      ELSE current_fitness > best_fitness
         IN TournamentBest(population, reversed, tournament_indices, i + 1,
                           IF is_better THEN current_index ELSE best_index)

\* tournament_indices: the distinct candidates left by the rejection sampling
tournament_select(population, tournament_size, reversed, tournament_indices) ==
    IF population = <<>> THEN Err("k_invalid_population_size")
    ELSE IF tournament_size = 0 THEN Err("k_invalid_parent_size")
    ELSE [ok |-> TRUE,
          index |-> TournamentBest(population, reversed, tournament_indices, 2,
                                   tournament_indices[1])]

TournamentDraws(population, tournament_size) ==
    LET effective_tournament_size ==
            IF tournament_size < Len(population) THEN tournament_size ELSE Len(population)
    IN {s \in [1..effective_tournament_size -> 1..Len(population)] :
            \A i, j \in DOMAIN s : i # j => s[i] # s[j]}

\* Every result selection_->select(population, random_gen) can return.
SelectOutcomes(selection, population) ==
    IF selection.kind = "roulette_wheel"
    THEN {roulette_wheel_select(population, d) : d \in RngDraws}
    ELSE IF population = <<>> \/ selection.tournament_size = 0
    THEN {tournament_select(population, selection.tournament_size,
                            selection.reversed, <<>>)}
    ELSE {tournament_select(population, selection.tournament_size,
                            selection.reversed, s) :
              s \in TournamentDraws(population, selection.tournament_size)}

(***************************************************************************)
(* crossover strategies                                                    *)
(***************************************************************************)
\* (random.generate_weight() < swap_probability_) ? parent1[i] : parent2[i]
uniform_crossover_gene(gene1, gene2, swap_probability, d) ==
    IF LessThanProbability(generate_weight(d), swap_probability) THEN gene1 ELSE gene2

\* single_point_crossover with the two loops reading from the other parent
single_point_crossover_parents_exchanged(parent1, parent2, d) ==
    LET crossover_point == (generate_position(d) * Len(parent1)) \div RngSteps
    IN [i \in 1..Len(parent2) |-> IF i <= crossover_point THEN parent2[i] ELSE parent1[i]]

\* crossover_point = static_cast<size_t>(random.generate_position() * parent1.size())
single_point_crossover(parent1, parent2, d) ==
    LET crossover_point == (generate_position(d) * Len(parent1)) \div RngSteps
    IN [i \in 1..Len(parent2) |-> IF i <= crossover_point THEN parent1[i] ELSE parent2[i]]

\* crossover with the loop of uniform_crossover stopping one gene short of the parents
CrossoverOutcomes_one_gene_short(crossover, parent1, parent2) ==
    IF Len(parent1) # Len(parent2)
    THEN {Err("k_invalid_parent_size")}
    ELSE IF crossover.kind = "single_point"
    THEN {[ok |-> TRUE, chromosome |-> single_point_crossover(parent1, parent2, d)] :
              d \in RngDraws}
    ELSE LET genes == Range(parent1) \cup Range(parent2)
         IN {[ok |-> TRUE, chromosome |-> child] :
                child \in {c \in [1..(Len(parent1) - 1) -> genes] :
                    \A i \in 1..(Len(parent1) - 1) :
                        \E d \in RngDraws :
                            c[i] = uniform_crossover_gene(parent1[i], parent2[i],
                                       crossover.swap_probability, d)}}

\* Every result crossover_->crossover(parent1, parent2, random_gen) can return.
CrossoverOutcomes(crossover, parent1, parent2) ==
    IF Len(parent1) # Len(parent2)
    THEN {Err("k_invalid_parent_size")}
    ELSE IF crossover.kind = "single_point"
    THEN {[ok |-> TRUE, chromosome |-> single_point_crossover(parent1, parent2, d)] :
              d \in RngDraws}
    ELSE LET genes == Range(parent1) \cup Range(parent2)
         IN {[ok |-> TRUE, chromosome |-> child] :
                child \in {c \in [1..Len(parent1) -> genes] :
                    \A i \in 1..Len(parent1) :
                        \E d \in RngDraws :
                            c[i] = uniform_crossover_gene(parent1[i], parent2[i],
                                       crossover.swap_probability, d)}}

(***************************************************************************)
(* mutation strategies                                                     *)
(***************************************************************************)
\* One iteration of the loop of gaussian_mutation::mutate; genes are in 1/RngSteps.
gaussian_mutate_gene(gene, mutation_probability, mutation_strength, d_hit, d_amount, d_sign) ==
    IF LessThanProbability(generate_position(d_hit), mutation_probability)
    THEN LET mutation == generate_position(d_amount) * mutation_strength
         IN gene + (IF generate_weight(d_sign) > 0 THEN mutation ELSE -mutation)
    ELSE gene

GaussianGeneOutcomes(gene, mutation) ==
    {gaussian_mutate_gene(gene, mutation.mutation_probability, mutation.mutation_strength,
                          d_hit, d_amount, d_sign) :
        d_hit \in RngDraws, d_amount \in RngDraws, d_sign \in RngDraws}

\* Every result mutation_->mutate(child_chromosome, random_gen) can leave: it never fails.
\* The loop treats each gene on its own draws, so the results are the chromosomes whose
\* every gene is a result of its iteration.
MutateOutcomes(mutation, chromosome) ==
    LET outcomes == [gene \in Range(chromosome) |-> GaussianGeneOutcomes(gene, mutation)]
    IN {[ok |-> TRUE, chromosome |-> child] :
           child \in {c \in [DOMAIN chromosome -> UNION Range(outcomes)] :
               \A i \in DOMAIN chromosome : c[i] \in outcomes[chromosome[i]]}}

(***************************************************************************)
(* animal_individual::from_chromosome and genetic_algorithm<T>::evolve     *)
(***************************************************************************)
\* make_unique<animal_individual>(chromosome): food_eaten_{0}; an exception thrown by
\* the construction is caught and reported as k_invalid_chromosome.
from_chromosome(chromosome, constructed) ==
    IF constructed
    THEN [ok |-> TRUE, individual |-> [fitness |-> 0, chromosome |-> chromosome]]
    ELSE Err("k_invalid_chromosome")

\* One pass through the body of the while loop of evolve: every result it can have,
\* either the new individual or the error of the first operator that failed. The four
\* calls draw independently, so the results of each stage are collected before the next.
IterationOutcomes(population, ga) ==
    LET Failed(results) == {Err(r.error) : r \in {x \in results : ~x.ok}}
        Passed(results) == {x \in results : x.ok}
        parent_results == SelectOutcomes(ga.selection, population)
        parents == {<<population[parent_a_result.index].chromosome,
                      population[parent_b_result.index].chromosome>> :
                        parent_a_result \in Passed(parent_results),
                        parent_b_result \in Passed(parent_results)}
        child_chromosome_results ==
            UNION {CrossoverOutcomes(ga.crossover, p[1], p[2]) : p \in parents}
        mutated_results ==
            UNION {MutateOutcomes(ga.mutation, child_chromosome_result.chromosome) :
                       child_chromosome_result \in Passed(child_chromosome_results)}
        new_individual_results ==
            {from_chromosome(mutated_result.chromosome, constructed) :
                 mutated_result \in Passed(mutated_results), constructed \in ga.construction}
    IN Failed(parent_results) \cup Failed(child_chromosome_results)
           \cup Failed(mutated_results) \cup new_individual_results

\* The loop of evolve stopping one individual short of the size of the population
RECURSIVE FillNextGeneration_one_short(_, _, _)
FillNextGeneration_one_short(population, next_generation, iteration_outcomes) ==
    IF Len(next_generation) + 1 >= Len(population)
    THEN {[ok |-> TRUE, population |-> next_generation]}
    ELSE UNION {
           IF new_individual_result.ok
           THEN FillNextGeneration_one_short(population,
                                   Append(next_generation, new_individual_result.individual),
                                   iteration_outcomes)
           ELSE {[ok |-> FALSE, error |-> new_individual_result.error,
                  discarded |-> Len(next_generation)]}
           : new_individual_result \in iteration_outcomes}

\* The loop of evolve handing back what it has built when an operator fails
RECURSIVE FillNextGeneration_partial(_, _, _)
FillNextGeneration_partial(population, next_generation, iteration_outcomes) ==
    IF Len(next_generation) >= Len(population)
    THEN {[ok |-> TRUE, population |-> next_generation]}
    ELSE UNION {
           IF new_individual_result.ok
           THEN FillNextGeneration_partial(population,
                                   Append(next_generation, new_individual_result.individual),
                                   iteration_outcomes)
           ELSE {[ok |-> TRUE, population |-> next_generation]}
           : new_individual_result \in iteration_outcomes}

\* while (next_generation.size() < population.size()) { ... }: every way it can end.
\* An error return destroys next_generation; "discarded" is its size at that moment.
RECURSIVE FillNextGeneration(_, _, _)
FillNextGeneration(population, next_generation, iteration_outcomes) ==
    IF Len(next_generation) >= Len(population)
    THEN {[ok |-> TRUE, population |-> next_generation]}
    ELSE UNION {
           IF new_individual_result.ok
           THEN FillNextGeneration(population,
                                   Append(next_generation, new_individual_result.individual),
                                   iteration_outcomes)
           ELSE {[ok |-> FALSE, error |-> new_individual_result.error,
                  discarded |-> Len(next_generation)]}
           : new_individual_result \in iteration_outcomes}

\* evolve computing the statistics over the offspring instead of the population passed in
evolve_stats_of_offspring(population, ga) ==
    IF population = <<>>
    THEN {[ok |-> FALSE, error |-> "k_invalid_population_size", discarded |-> 0]}
    ELSE {IF r.ok THEN [ok |-> TRUE, population |-> r.population,
                        stats |-> from_population(r.population)]
                  ELSE r :
             r \in FillNextGeneration(population, <<>>, IterationOutcomes(population, ga))}

\* Every result genetic_algorithm<T>::evolve(population, random_gen) can return.
evolve(population, ga) ==
    IF population = <<>>
    THEN {[ok |-> FALSE, error |-> "k_invalid_population_size", discarded |-> 0]}
    ELSE LET stats == from_population(population)
         IN {IF r.ok THEN [ok |-> TRUE, population |-> r.population, stats |-> stats]
                     ELSE r :
                r \in FillNextGeneration(population, <<>>, IterationOutcomes(population, ga))}

(***************************************************************************)
(* SpecGA: genetic_algorithm<T>::evolve applied to bounded inputs.         *)
(***************************************************************************)
\* Chromosomes of the orchestrator-level inputs differ in length, not in content.
GaIndividuals ==
    {[fitness |-> f, chromosome |-> [i \in 1..n |-> 0]] :
        f \in 0..MaxFitness, n \in 1..MaxGenes}

GaPopulations == UNION {[1..n -> GaIndividuals] : n \in 0..MaxPopulation}

GaSelections ==
    {[kind |-> "roulette_wheel", reversed |-> FALSE]}
    \cup {[kind |-> "tournament", tournament_size |-> k, reversed |-> r] :
             k \in 0..MaxTournamentSize, r \in BOOLEAN}

GaCrossovers ==
    {[kind |-> "uniform", swap_probability |-> <<1, 2>>], [kind |-> "single_point"]}

GaMutations ==
    {[kind |-> "gaussian", mutation_probability |-> <<1, 1>>, mutation_strength |-> 0]}

\* construction: the outcomes the construction of an offspring can have (TRUE: built)
GaStrategies ==
    [selection : GaSelections, crossover : GaCrossovers, mutation : GaMutations,
     construction : {{TRUE}, {TRUE, FALSE}, {FALSE}}]

GaNotCalled == [ok |-> FALSE, error |-> "not_called", discarded |-> 0]

GaIdle ==
    /\ ga_in = [population |-> <<>>, ga |-> "none"]
    /\ ga_out = GaNotCalled
    /\ ga_pc = "idle"

GaInit ==
    /\ ga_in \in [population : GaPopulations, ga : GaStrategies]
    /\ ga_out = GaNotCalled
    /\ ga_pc = "ready"

GaEvolve ==
    /\ ga_pc = "ready"
    /\ ga_out' \in evolve(ga_in.population, ga_in.ga)
    /\ ga_pc' = "done"
    /\ UNCHANGED ga_in

(***************************************************************************)
(* simulation::simulation                                                  *)
(***************************************************************************)
\* brain::topology: [num_cells -> num_neurons -> 2]; a layer has (inputs + 1) * outputs
\* weights.
brain_weight_count(cfg) ==
    (cfg.brain_eye.num_cells + 1) * cfg.brain_eye.num_neurons
        + (cfg.brain_eye.num_neurons + 1) * 2

\* animal::random: food_eaten_ is 0; brain holds the flattened weights of the network
\* (every random weight is drawn as 0: no variable of this model depends on the value).
animal_random(cfg) ==
    [food_eaten |-> 0, brain |-> [i \in 1..brain_weight_count(cfg) |-> 0]]

\* animal_individual::from_animal: fitness is food_eaten, chromosome is as_chromosome()
from_animal(animal) == [fitness |-> animal.food_eaten, chromosome |-> animal.brain]

\* invert_fitness with the operands of the subtraction exchanged
invert_fitness_exchanged(individual, max_value) ==
    [individual EXCEPT !.fitness = individual.fitness - max_value]

\* animal_individual::invert_fitness: food_eaten_ = max_value - food_eaten_ on size_t.
\* A negative result stands for the value 2^64 + (max_value - food_eaten_) the unsigned
\* subtraction wraps to.
invert_fitness(individual, max_value) ==
    [individual EXCEPT !.fitness = max_value - individual.fitness]

\* animal_individual::into_animal -> animal::from_chromosome -> brain::from_chromosome ->
\* network::from_weights: a chromosome of the wrong length does not become an animal.
\* With too many genes from_weights reports an error and into_animal throws; with too
\* few see simulation_evolve.
into_animal(cfg, individual) ==
    IF Len(individual.chromosome) # brain_weight_count(cfg)
    THEN Err("k_invalid_chromosome")
    ELSE [ok |-> TRUE, animal |-> [food_eaten |-> 0, brain |-> individual.chromosome]]

\* world::random
world_random(cfg) ==
    [animals |-> [i \in 1..cfg.world.num_animals |-> animal_random(cfg)],
     foods   |-> cfg.world.num_foods]

\* simulation::process_collisions. eaten[i]: the number of foods within
\* food_size + bird_size of animal i when the inner loop reaches them.
process_collisions(world_animals, eaten) ==
    [i \in DOMAIN world_animals |->
        [world_animals[i] EXCEPT !.food_eaten = @ + eaten[i]]]

\* The post-state of a call: the fields of the simulation and what the call returned.
SimOutcome(age, generation, world_animals, world_foods, result, given) ==
    [age |-> age, generation |-> generation, animals |-> world_animals,
     foods |-> world_foods, result |-> result, individuals |-> given]

\* The inversion written into the animals of the world as well as into the snapshot
snapshot_inverting_animals(cfg, world_animals) ==
    LET individuals_ == [i \in DOMAIN world_animals |-> from_animal(world_animals[i])]
        max_fitness == Max({individuals_[i].fitness : i \in DOMAIN individuals_})
    IN IF cfg.genetic.reverse /\ individuals_ # <<>>
       THEN [individuals |-> [i \in DOMAIN individuals_ |->
                                  invert_fitness(individuals_[i], max_fitness)],
             animals |-> [i \in DOMAIN world_animals |->
                             [world_animals[i] EXCEPT !.food_eaten = max_fitness - @]]]
       ELSE [individuals |-> individuals_, animals |-> world_animals]

\* simulation::evolve, from the loop that builds the individuals to the loop that inverts
\* their fitness: the individuals handed to the genetic algorithm, and the animals of
\* the world, which from_animal reads through a const reference. get_fitness() is
\* static_cast<float>(food_eaten_) and max_fitness goes back to size_t in the call of
\* invert_fitness; both conversions are exact for the counts of this model (below 2^24).
\* The vector is not empty (see simulation_evolve for max_element on an empty one).
snapshot(cfg, world_animals) ==
    LET individuals_ == [i \in DOMAIN world_animals |-> from_animal(world_animals[i])]
        max_fitness == Max({individuals_[i].fitness : i \in DOMAIN individuals_})
    IN IF cfg.genetic.reverse /\ individuals_ # <<>>
       THEN [individuals |-> [i \in DOMAIN individuals_ |->
                                  invert_fitness(individuals_[i], max_fitness)],
             animals |-> world_animals]
       ELSE [individuals |-> individuals_, animals |-> world_animals]

\* simulation::evolve: every way the call can end.
simulation_evolve(cfg, generation, world_animals, world_foods) ==
    LET new_age == 0
        new_generation == generation + 1
        population == snapshot(cfg, world_animals).individuals
        gen_algorithm ==
            [selection |-> [kind |-> "roulette_wheel", reversed |-> FALSE],
             crossover |-> [kind |-> "uniform", swap_probability |-> <<1, 2>>],
             mutation  |-> [kind |-> "gaussian",
                            mutation_probability |-> cfg.genetic.mutation_chance,
                            mutation_strength |-> cfg.genetic.mutation_coeff],
             construction |-> {TRUE}]
        threw == SimOutcome(new_age, new_generation, world_animals, world_foods,
                            [kind |-> "threw"], <<>>)
        \* std::max_element over an empty vector returns end(); dereferencing it is
        \* undefined: the call faults, or reads garbage and carries on.
        fault == SimOutcome(new_age, new_generation, world_animals, world_foods,
                            [kind |-> "fault"], <<>>)
        \* A chromosome with too few genes violates the precondition of span::subspan
        \* in network::from_weights: the call ends there, or reads past the genes and
        \* reports an error, on which into_animal throws.
        too_short == {evolved_result \in evolve(population, gen_algorithm) :
                         /\ evolved_result.ok
                         /\ \E i \in DOMAIN evolved_result.population :
                                Len(evolved_result.population[i].chromosome)
                                    < brain_weight_count(cfg)}
        Finish(evolved_result) ==
            IF ~evolved_result.ok THEN threw
            ELSE LET converted == [i \in DOMAIN evolved_result.population |->
                                       into_animal(cfg, evolved_result.population[i])]
                 IN IF \E i \in DOMAIN converted : ~converted[i].ok THEN threw
                    ELSE SimOutcome(new_age, new_generation,
                                    [i \in DOMAIN converted |-> converted[i].animal],
                                    world_foods,
                                    [kind |-> "stats", generation |-> new_generation - 1,
                                     ga_stats |-> evolved_result.stats],
                                    [i \in DOMAIN population |-> population[i].fitness])
    IN (IF cfg.genetic.reverse /\ world_animals = <<>> THEN {fault} ELSE {})
       \cup (IF too_short # {} THEN {fault} ELSE {})
       \cup {Finish(evolved_result) : evolved_result \in evolve(population, gen_algorithm)}

\* try_evolving with the comparison of age_ against generation_length made non-strict
try_evolving_at_threshold(cfg, age, generation, world_animals, world_foods) ==
    IF age + 1 >= cfg.sim.generation_length
    THEN simulation_evolve(cfg, generation, world_animals, world_foods)
    ELSE {SimOutcome(age + 1, generation, world_animals, world_foods,
                     [kind |-> "nullopt"], <<>>)}

\* try_evolving with the generation boundary one step late
try_evolving_one_step_late(cfg, age, generation, world_animals, world_foods) ==
    IF age + 1 > cfg.sim.generation_length + 1
    THEN simulation_evolve(cfg, generation, world_animals, world_foods)
    ELSE {SimOutcome(age + 1, generation, world_animals, world_foods,
                     [kind |-> "nullopt"], <<>>)}

\* simulation::try_evolving
try_evolving(cfg, age, generation, world_animals, world_foods) ==
    IF age + 1 > cfg.sim.generation_length
    THEN simulation_evolve(cfg, generation, world_animals, world_foods)
    ELSE {SimOutcome(age + 1, generation, world_animals, world_foods,
                     [kind |-> "nullopt"], <<>>)}

\* simulation::step: collisions, brains and movements (which change positions only),
\* then try_evolving.
step(cfg, age, generation, world_animals, world_foods, eaten) ==
    try_evolving(cfg, age, generation, process_collisions(world_animals, eaten), world_foods)

SimConfigs ==
    {[world     |-> [num_animals |-> na, num_foods |-> nf],
      brain_eye |-> [num_cells |-> 1, num_neurons |-> 1],
      sim       |-> [generation_length |-> gl],
      genetic   |-> [mutation_chance |-> <<1, 2>>, mutation_coeff |-> 0, reverse |-> rv]] :
        na \in 0..MaxAnimals, nf \in 0..MaxFoods,
        gl \in 0..MaxGenerationLength, rv \in BOOLEAN}

NoTrain == [age |-> 0, generation |-> 0]

\* simulation::random
SimRandom(cfg) ==
    /\ config = cfg
    /\ animals = world_random(cfg).animals
    /\ foods = world_random(cfg).foods
    /\ age_ = 0
    /\ generation_ = 0
    /\ sim_result = [kind |-> "none"]
    /\ train_pc = "idle"
    /\ train_steps = 0
    /\ train_from = NoTrain
    /\ individuals = <<>>

SimIdle == SimRandom(CHOOSE cfg \in SimConfigs :
                        /\ cfg.world.num_animals = 0 /\ cfg.world.num_foods = 0
                        /\ cfg.sim.generation_length = 0 /\ ~cfg.genetic.reverse)

SimInit == \E cfg \in SimConfigs : SimRandom(cfg)

\* The process runs: no call has faulted.
SimAlive == sim_result.kind # "fault"

\* One call of step() and its effect on the fields.
DoStep ==
    \E eaten \in [DOMAIN animals -> 0..foods] :
        \E o \in step(config, age_, generation_, animals, foods, eaten) :
            /\ age_' = o.age
            /\ generation_' = o.generation
            /\ animals' = o.animals
            /\ foods' = o.foods
            /\ sim_result' = o.result
            /\ individuals' = o.individuals
            /\ UNCHANGED config

\* simulation::step called by the owner of the simulation
SimStep ==
    /\ SimAlive /\ train_pc = "idle" /\ generation_ < MaxGeneration
    /\ DoStep
    /\ train_steps' = 0 /\ train_from' = NoTrain
    /\ UNCHANGED train_pc

\* simulation::train: the call and the first pass through its loop
TrainCall ==
    /\ SimAlive /\ train_pc = "idle" /\ generation_ < MaxGeneration
    /\ DoStep
    /\ train_steps' = 1
    /\ train_from' = [age |-> age_, generation |-> generation_]
    /\ train_pc' = IF sim_result'.kind = "nullopt" THEN "running" ELSE "idle"

\* simulation::train: a further pass through its loop
TrainLoop ==
    /\ SimAlive /\ train_pc = "running"
    /\ DoStep
    /\ train_steps' = train_steps + 1
    /\ train_pc' = IF sim_result'.kind = "nullopt" THEN "running" ELSE "idle"
    /\ UNCHANGED train_from

(***************************************************************************)
(* simulation_runner: run, run_simulation, monitor_progress                *)
(***************************************************************************)
Tasks == 1..NumConfigs

TaskRecord(state, iter, gen, pc) == [state |-> state, iter |-> iter, gen |-> gen, pc |-> pc]

\* Where run_simulation stands when it reaches the head of the iteration loop with iter:
\* past the loop (the task function returns), or inside, at the head of the generation
\* loop with gen = 0.
EnterIteration(iter) ==
    IF iter >= Iterations THEN TaskRecord("done", iter, 0, "end")
    ELSE IF Generations = 0 THEN TaskRecord("running", iter, 0, "count")
    ELSE TaskRecord("running", iter, 0, "train")

RunIdle ==
    /\ run_pc = "idle"
    /\ next_task = 1
    /\ tasks = [t \in Tasks |-> TaskRecord("unscheduled", 0, 0, "end")]
    /\ log_entries = [t \in Tasks |-> <<>>]
    /\ log_mutex = 0
    /\ done_steps = 0
    /\ is_done = FALSE
    /\ mon_pc = "not_started"
    /\ final_steps = 0
    /\ summary_lines = 0
    /\ results_saved = FALSE

\* run() is entered: the combinations are generated.
RunInit ==
    /\ run_pc = "start"
    /\ next_task = 1
    /\ tasks = [t \in Tasks |-> TaskRecord("unscheduled", 0, 0, "end")]
    /\ log_entries = [t \in Tasks |-> <<>>]
    /\ log_mutex = 0
    /\ done_steps = 0
    /\ is_done = FALSE
    /\ mon_pc = "not_started"
    /\ final_steps = 0
    /\ summary_lines = 0
    /\ results_saved = FALSE

\* The process is alive: std::terminate has not been called.
RunAlive == run_pc # "terminated"

\* done_steps{0}, is_done{false}, std::thread progress_thread(monitor_progress, ...),
\* log_entries, log_mutex, executor
RunStart ==
    /\ run_pc = "start"
    /\ mon_pc' = "check"
    /\ run_pc' = "schedule"
    /\ UNCHANGED <<next_task, tasks, log_entries, log_mutex, done_steps, is_done,
                   final_steps, summary_lines, results_saved>>

\* for (const auto& params : combinations) { make_task; task->schedule(executor); }
RunSchedule ==
    /\ run_pc = "schedule"
    /\ tasks' = [tasks EXCEPT ![next_task] = TaskRecord("queued", 0, 0, "end")]
    /\ IF next_task < NumConfigs
       THEN next_task' = next_task + 1 /\ UNCHANGED run_pc
       ELSE next_task' = 1 /\ run_pc' = "get"
    /\ UNCHANGED <<log_entries, log_mutex, done_steps, is_done, mon_pc,
                   final_steps, summary_lines, results_saved>>

\* The loop of get() going on without waiting for the task to finish
RunGet_without_waiting ==
    /\ run_pc = "get"
    /\ IF next_task < NumConfigs
       THEN next_task' = next_task + 1 /\ UNCHANGED run_pc
       ELSE next_task' = 1 /\ run_pc' = "set_done"
    /\ UNCHANGED <<tasks, log_entries, log_mutex, done_steps, is_done, mon_pc,
                   final_steps, summary_lines, results_saved>>

\* for (auto& task : tasks) { task->get(); }: get() blocks until the task has finished
\* and rethrows the exception the task ended with; the exception leaves the try block.
RunGet ==
    /\ run_pc = "get"
    /\ \/ /\ tasks[next_task].state = "done"
          /\ IF next_task < NumConfigs
             THEN next_task' = next_task + 1 /\ UNCHANGED run_pc
             ELSE next_task' = 1 /\ run_pc' = "set_done"
       \/ /\ tasks[next_task].state = "failed"
          /\ run_pc' = "unwinding"
          /\ UNCHANGED next_task
    /\ UNCHANGED <<tasks, log_entries, log_mutex, done_steps, is_done, mon_pc,
                   final_steps, summary_lines, results_saved>>

\* is_done = true;
RunSetDone ==
    /\ run_pc = "set_done"
    /\ is_done' = TRUE
    /\ run_pc' = "join"
    /\ UNCHANGED <<next_task, tasks, log_entries, log_mutex, done_steps, mon_pc,
                   final_steps, summary_lines, results_saved>>

\* progress_thread.join();
RunJoin ==
    /\ run_pc = "join"
    /\ mon_pc = "exited"
    /\ run_pc' = "save"
    /\ UNCHANGED <<next_task, tasks, log_entries, log_mutex, done_steps, is_done, mon_pc,
                   final_steps, summary_lines, results_saved>>

\* save_results(log_entries); then run() returns.
RunSave ==
    /\ run_pc = "save"
    /\ results_saved' = TRUE
    /\ run_pc' = "returned"
    /\ UNCHANGED <<next_task, tasks, log_entries, log_mutex, done_steps, is_done, mon_pc,
                   final_steps, summary_lines>>

\* The exception unwinds the try block: the destructor of the executor waits for the
\* tasks that are running (tasks still queued are started or dropped), then the
\* destructor of progress_thread, which is joinable, calls std::terminate.
RunUnwind ==
    /\ run_pc = "unwinding"
    /\ \A t \in Tasks : tasks[t].state # "running"
    /\ run_pc' = "terminated"
    /\ UNCHANGED <<next_task, tasks, log_entries, log_mutex, done_steps, is_done, mon_pc,
                   final_steps, summary_lines, results_saved>>

\* A worker thread of the executor takes the oldest queued task and calls its function.
TaskStart(t) ==
    /\ RunAlive
    /\ tasks[t].state = "queued"
    /\ \A u \in Tasks : u < t => tasks[u].state # "queued"
    /\ Cardinality({u \in Tasks : tasks[u].state = "running"}) < PoolSize
    /\ tasks' = [tasks EXCEPT ![t] = EnterIteration(0)]
    /\ UNCHANGED <<run_pc, next_task, log_entries, log_mutex, done_steps, is_done,
                   mon_pc, final_steps, summary_lines, results_saved>>

\* auto stats = sim.train(random); simulation_log_entry entry{sim_config, gen, iter, stats};
\* train() returns the statistics or throws, and an exception ends the task.
TaskTrain(t) ==
    /\ RunAlive
    /\ tasks[t].state = "running" /\ tasks[t].pc = "train"
    /\ \E threw \in BOOLEAN :
           tasks' = [tasks EXCEPT ![t] =
                        IF threw THEN [@ EXCEPT !.state = "failed", !.pc = "end"]
                        ELSE [@ EXCEPT !.pc = "lock"]]
    /\ UNCHANGED <<run_pc, next_task, log_entries, log_mutex, done_steps, is_done,
                   mon_pc, final_steps, summary_lines, results_saved>>

\* The append entered without waiting for log_mutex
TaskLock_unguarded(t) ==
    /\ RunAlive
    /\ tasks[t].state = "running" /\ tasks[t].pc = "lock"
    /\ log_mutex' = t
    /\ tasks' = [tasks EXCEPT ![t].pc = "push"]
    /\ UNCHANGED <<run_pc, next_task, log_entries, done_steps, is_done,
                   mon_pc, final_steps, summary_lines, results_saved>>

\* std::lock_guard<std::mutex> lock(log_mutex);
TaskLock(t) ==
    /\ RunAlive
    /\ tasks[t].state = "running" /\ tasks[t].pc = "lock"
    /\ log_mutex = 0
    /\ log_mutex' = t
    /\ tasks' = [tasks EXCEPT ![t].pc = "push"]
    /\ UNCHANGED <<run_pc, next_task, log_entries, done_steps, is_done,
                   mon_pc, final_steps, summary_lines, results_saved>>

\* The entry built with the generations counted down
TaskPush_generations_descending(t) ==
    /\ RunAlive
    /\ tasks[t].state = "running" /\ tasks[t].pc = "push"
    /\ log_entries' = [log_entries EXCEPT
                           ![t] = Append(@, <<tasks[t].iter, Generations - 1 - tasks[t].gen>>)]
    /\ log_mutex' = 0
    /\ tasks' = [tasks EXCEPT ![t] =
                    IF @.gen + 1 < Generations
                    THEN [@ EXCEPT !.gen = @ + 1, !.pc = "train"]
                    ELSE [@ EXCEPT !.gen = @ + 1, !.pc = "count"]]
    /\ UNCHANGED <<run_pc, next_task, done_steps, is_done,
                   mon_pc, final_steps, summary_lines, results_saved>>

\* log_entries.push_back(std::move(entry)); the guard is released; ++gen
TaskPush(t) ==
    /\ RunAlive
    /\ tasks[t].state = "running" /\ tasks[t].pc = "push"
    /\ log_entries' = [log_entries EXCEPT ![t] = Append(@, <<tasks[t].iter, tasks[t].gen>>)]
    /\ log_mutex' = 0
    /\ tasks' = [tasks EXCEPT ![t] =
                    IF @.gen + 1 < Generations
                    THEN [@ EXCEPT !.gen = @ + 1, !.pc = "train"]
                    ELSE [@ EXCEPT !.gen = @ + 1, !.pc = "count"]]
    /\ UNCHANGED <<run_pc, next_task, done_steps, is_done,
                   mon_pc, final_steps, summary_lines, results_saved>>

\* The counter incremented before the entries of the iteration are appended: at the
\* last push of the iteration as well as after it
TaskCount_before_last_push(t) ==
    /\ RunAlive
    /\ tasks[t].state = "running"
    /\ \/ tasks[t].pc = "count" /\ tasks' = [tasks EXCEPT ![t] = EnterIteration(@.iter + 1)]
       \/ tasks[t].pc = "lock" /\ tasks[t].gen + 1 = Generations /\ UNCHANGED tasks
    /\ done_steps' = done_steps + 1
    /\ UNCHANGED <<run_pc, next_task, log_entries, log_mutex, is_done,
                   mon_pc, final_steps, summary_lines, results_saved>>

\* done_steps.fetch_add(1, std::memory_order_relaxed); ++iter
TaskCount(t) ==
    /\ RunAlive
    /\ tasks[t].state = "running" /\ tasks[t].pc = "count"
    /\ done_steps' = done_steps + 1
    /\ tasks' = [tasks EXCEPT ![t] = EnterIteration(@.iter + 1)]
    /\ UNCHANGED <<run_pc, next_task, log_entries, log_mutex, is_done,
                   mon_pc, final_steps, summary_lines, results_saved>>

\* while (!is_done) {: the flag is not set, the thread sleeps for update_interval
MonitorSleep ==
    /\ RunAlive
    /\ mon_pc = "check" /\ ~is_done
    /\ mon_pc' = "sleep"
    /\ UNCHANGED <<run_pc, next_task, tasks, log_entries, log_mutex, done_steps, is_done,
                   final_steps, summary_lines, results_saved>>

\* done_steps.load(); the progress line is logged (it changes no variable); }
MonitorProgress ==
    /\ RunAlive
    /\ mon_pc = "sleep"
    /\ mon_pc' = "check"
    /\ UNCHANGED <<run_pc, next_task, tasks, log_entries, log_mutex, done_steps, is_done,
                   final_steps, summary_lines, results_saved>>

\* The flag is set: final_steps = done_steps.load(); "Completed {}/{} simulations ..."
MonitorSummary ==
    /\ RunAlive
    /\ mon_pc = "check" /\ is_done
    /\ final_steps' = done_steps
    /\ summary_lines' = summary_lines + 1
    /\ mon_pc' = "exited"
    /\ UNCHANGED <<run_pc, next_task, tasks, log_entries, log_mutex, done_steps, is_done,
                   results_saved>>

(***************************************************************************)
(* simulation_window: the simulation thread and the handlers of the GUI    *)
(* thread. What the calls do inside the simulation is left out here: the   *)
(* positions tell which thread is inside which call on *simulation_.       *)
(***************************************************************************)
UiIdle ==
    /\ sim_thread_pc = "not_started"
    /\ gui_pc = "closed"
    /\ paused_ = FALSE
    /\ evolution_in_progress_ = FALSE
    /\ thread_should_exit_ = FALSE
    /\ gui_data_mutex_ = "free"
    /\ was_paused = FALSE
    /\ train_generations = 0

\* The constructor has run: reset_world(), then start_simulation_thread().
UiInit ==
    /\ sim_thread_pc = "loop"
    /\ gui_pc = "idle"
    /\ paused_ = FALSE
    /\ evolution_in_progress_ = FALSE
    /\ thread_should_exit_ = FALSE
    /\ gui_data_mutex_ = "free"
    /\ was_paused = FALSE
    /\ train_generations = 0

\* while (!thread_should_exit_) { if (!paused_) { ... } sleep_for(...); }
ThreadLoop ==
    /\ sim_thread_pc = "loop"
    /\ sim_thread_pc' = IF thread_should_exit_ THEN "exited"
                        ELSE IF ~paused_ THEN "step" ELSE "sleep"
    /\ UNCHANGED <<gui_pc, paused_, evolution_in_progress_, thread_should_exit_,
                   gui_data_mutex_, was_paused, train_generations>>

\* simulation_->step(random_) is entered
ThreadStepCall ==
    /\ sim_thread_pc = "step"
    /\ sim_thread_pc' = "in_step"
    /\ UNCHANGED <<gui_pc, paused_, evolution_in_progress_, thread_should_exit_,
                   gui_data_mutex_, was_paused, train_generations>>

\* simulation_->step(random_) returns; with dt > max_dt the for loop steps again while
\* !paused_ && !thread_should_exit_ and steps are left.
ThreadStepReturn ==
    /\ sim_thread_pc = "in_step"
    /\ \/ sim_thread_pc' = "lock"
       \/ ~paused_ /\ ~thread_should_exit_ /\ sim_thread_pc' = "step"
    /\ UNCHANGED <<gui_pc, paused_, evolution_in_progress_, thread_should_exit_,
                   gui_data_mutex_, was_paused, train_generations>>

\* const std::lock_guard<std::mutex> lock(gui_data_mutex_);
ThreadLock ==
    /\ sim_thread_pc = "lock"
    /\ gui_data_mutex_ = "free"
    /\ gui_data_mutex_' = "simulation_thread"
    /\ sim_thread_pc' = "update_data"
    /\ UNCHANGED <<gui_pc, paused_, evolution_in_progress_, thread_should_exit_,
                   was_paused, train_generations>>

\* update_data(); gui_data_updated_ = true; the guard is released
ThreadUpdateData ==
    /\ sim_thread_pc = "update_data"
    /\ gui_data_mutex_' = "free"
    /\ sim_thread_pc' = "sleep"
    /\ UNCHANGED <<gui_pc, paused_, evolution_in_progress_, thread_should_exit_,
                   was_paused, train_generations>>

\* std::this_thread::sleep_for(...)
ThreadSleep ==
    /\ sim_thread_pc = "sleep"
    /\ sim_thread_pc' = "loop"
    /\ UNCHANGED <<gui_pc, paused_, evolution_in_progress_, thread_should_exit_,
                   gui_data_mutex_, was_paused, train_generations>>

\* render(): { std::lock_guard<std::mutex> lock(gui_data_mutex_); gui_data_updated_ = false; }
GuiRenderLock ==
    /\ gui_pc = "idle"
    /\ gui_data_mutex_ = "free"
    /\ gui_data_mutex_' = "gui_thread"
    /\ gui_pc' = "render"
    /\ UNCHANGED <<sim_thread_pc, paused_, evolution_in_progress_, thread_should_exit_,
                   was_paused, train_generations>>

GuiRenderUnlock ==
    /\ gui_pc = "render"
    /\ gui_data_mutex_' = "free"
    /\ gui_pc' = "idle"
    /\ UNCHANGED <<sim_thread_pc, paused_, evolution_in_progress_, thread_should_exit_,
                   was_paused, train_generations>>

\* if (ImGui::Button(paused_ ? "Resume" : "Pause")) { paused_ = !paused_; }
GuiTogglePause ==
    /\ gui_pc = "idle"
    /\ paused_' = ~paused_
    /\ UNCHANGED <<sim_thread_pc, gui_pc, evolution_in_progress_, thread_should_exit_,
                   gui_data_mutex_, was_paused, train_generations>>

\* The calls a button, a console command or a click makes on simulation_ with no lock
\* taken and the simulation thread left running: reset_world() replaces *simulation_,
\* spawn_animal() and spawn_food() add to its world.
GuiCalls == {"reset_world", "spawn_animal", "spawn_food"}

GuiCall ==
    /\ gui_pc = "idle"
    /\ gui_pc' \in GuiCalls
    /\ UNCHANGED <<sim_thread_pc, paused_, evolution_in_progress_, thread_should_exit_,
                   gui_data_mutex_, was_paused, train_generations>>

GuiCallReturn ==
    /\ gui_pc \in GuiCalls
    /\ gui_pc' = "idle"
    /\ UNCHANGED <<sim_thread_pc, paused_, evolution_in_progress_, thread_should_exit_,
                   gui_data_mutex_, was_paused, train_generations>>

\* simulation_window::train(generations): evolution_in_progress_ = true;
\* was_paused = paused_; paused_ = false;
GuiTrain ==
    /\ gui_pc = "idle"
    /\ ~evolution_in_progress_
    /\ \E generations \in 1..MaxTrainGenerations : train_generations' = generations
    /\ evolution_in_progress_' = TRUE
    /\ was_paused' = paused_
    /\ paused_' = FALSE
    /\ gui_pc' = "train_loop"
    /\ UNCHANGED <<sim_thread_pc, thread_should_exit_, gui_data_mutex_>>

\* for (gen < generations): simulation_->train(random_) is entered
GuiTrainCall ==
    /\ gui_pc = "train_loop"
    /\ train_generations > 0
    /\ gui_pc' = "in_train"
    /\ UNCHANGED <<sim_thread_pc, paused_, evolution_in_progress_, thread_should_exit_,
                   gui_data_mutex_, was_paused, train_generations>>

\* simulation_->train(random_) returns, or throws and the catch ends the loop
GuiTrainReturn ==
    /\ gui_pc = "in_train"
    /\ gui_pc' = "train_loop"
    /\ \E threw \in BOOLEAN :
           train_generations' = IF threw THEN 0 ELSE train_generations - 1
    /\ UNCHANGED <<sim_thread_pc, paused_, evolution_in_progress_, thread_should_exit_,
                   gui_data_mutex_, was_paused>>

\* paused_ = was_paused; evolution_in_progress_ = false; return result;
GuiTrainEnd ==
    /\ gui_pc = "train_loop"
    /\ train_generations = 0
    /\ paused_' = was_paused
    /\ evolution_in_progress_' = FALSE
    /\ gui_pc' = "idle"
    /\ UNCHANGED <<sim_thread_pc, thread_should_exit_, gui_data_mutex_, was_paused,
                   train_generations>>

\* ~simulation_window -> stop_simulation_thread(): thread_should_exit_ = true;
GuiStopThread ==
    /\ gui_pc = "idle"
    /\ thread_should_exit_' = TRUE
    /\ gui_pc' = "join"
    /\ UNCHANGED <<sim_thread_pc, paused_, evolution_in_progress_, gui_data_mutex_,
                   was_paused, train_generations>>

\* simulation_thread_.join();
GuiJoin ==
    /\ gui_pc = "join"
    /\ sim_thread_pc = "exited"
    /\ gui_pc' = "closed"
    /\ UNCHANGED <<sim_thread_pc, paused_, evolution_in_progress_, thread_should_exit_,
                   gui_data_mutex_, was_paused, train_generations>>

\* The threads that are inside a call that changes *simulation_ (step, train and the
\* evolve they run, spawn_animal, spawn_food) or that replaces it (reset_world)
Mutators ==
    (IF sim_thread_pc = "in_step" THEN {"simulation_thread"} ELSE {})
        \cup (IF gui_pc \in GuiCalls \cup {"in_train"} THEN {"gui_thread"} ELSE {})

(***************************************************************************)
(* simulation::process_collisions on a world whose animals and foods have  *)
(* positions. A position is a pair of coordinates, each in 1/RngSteps; the *)
(* sizes of the configuration are in the same unit.                        *)
(***************************************************************************)
\* vector2d{random.generate_position(), random.generate_position()}: the positions
\* world::random and food::randomize_position can leave
Positions == {<<generate_position(dx), generate_position(dy)>> : dx, dy \in RngDraws}

\* The test of the distance made strict
within_collision_distance_strict(cfg, animal_position, food_position) ==
    LET disx == animal_position[1] - food_position[1]
        disy == animal_position[2] - food_position[2]
        collision_distance == cfg.world.food_size + cfg.world.bird_size
    IN /\ collision_distance >= 0
       /\ disx * disx + disy * disy < collision_distance * collision_distance

\* distance <= collision_distance, with distance = std::sqrt(disx * disx + disy * disy)
\* and collision_distance = config_.world.food_size + config_.world.bird_size
within_collision_distance(cfg, animal_position, food_position) ==
    LET disx == animal_position[1] - food_position[1]
        disy == animal_position[2] - food_position[2]
        collision_distance == cfg.world.food_size + cfg.world.bird_size
    IN /\ collision_distance >= 0
       /\ disx * disx + disy * disy <= collision_distance * collision_distance

\* The two nested loops from the pair (animal i, food j) on. w holds, as they stand when
\* the pair is reached: eaten[a], the times increment_food_eaten() was called on animal a;
\* foods, the positions of the foods; relocated[f], the times randomize_position() was
\* called on food f. Every way the loops can end is returned.
RECURSIVE CollideFrom(_, _, _, _, _)
CollideFrom(cfg, world_animals, i, j, w) ==
    IF i > Len(world_animals) THEN {w}
    ELSE IF j > Len(w.foods) THEN CollideFrom(cfg, world_animals, i + 1, 1, w)
    ELSE IF within_collision_distance(cfg, world_animals[i].position, w.foods[j])
    THEN UNION {CollideFrom(cfg, world_animals, i, j + 1,
                            [eaten     |-> [w.eaten EXCEPT ![i] = @ + 1],
                             foods     |-> [w.foods EXCEPT ![j] = new_position],
                             relocated |-> [w.relocated EXCEPT ![j] = @ + 1]]) :
                   new_position \in Positions}
    ELSE CollideFrom(cfg, world_animals, i, j + 1, w)

\* process_collisions taking the eaten foods out of the world
collide_removing_eaten(cfg, world_animals, world_foods) ==
    {LET kept == {f \in DOMAIN w.foods : w.relocated[f] = 0}
         nth(k) == CHOOSE f \in kept : Cardinality({g \in kept : g < f}) = k - 1
     IN [animals   |-> process_collisions(world_animals, w.eaten),
         foods     |-> [k \in 1..Cardinality(kept) |-> w.foods[nth(k)]],
         relocated |-> [k \in 1..Cardinality(kept) |-> 0]] :
        w \in CollideFrom(cfg, world_animals, 1, 1,
                          [eaten     |-> [a \in DOMAIN world_animals |-> 0],
                           foods     |-> world_foods,
                           relocated |-> [f \in DOMAIN world_foods |-> 0]])}

\* simulation::process_collisions: every world the call can leave
collide(cfg, world_animals, world_foods) ==
    {[animals   |-> process_collisions(world_animals, w.eaten),
      foods     |-> w.foods,
      relocated |-> w.relocated] :
        w \in CollideFrom(cfg, world_animals, 1, 1,
                          [eaten     |-> [a \in DOMAIN world_animals |-> 0],
                           foods     |-> world_foods,
                           relocated |-> [f \in DOMAIN world_foods |-> 0]])}

\* The sizes that decide the collisions; food_size + bird_size is 0 or 1/RngSteps
ColConfigs == {[world |-> [food_size |-> fs, bird_size |-> 0]] : fs \in 0..1}

\* The worlds world::random can build with at least one animal and at most
\* MaxAnimals + 1 animals and foods together
ColWorlds ==
    UNION {UNION {[animals : [1..na -> {[position |-> p, food_eaten |-> 0] : p \in Positions}],
                   foods   : [1..nf -> Positions]] :
                      nf \in 0..(MaxAnimals + 1 - na)} :
               na \in 1..MaxAnimals}

ColNotCalled == [animals |-> <<>>, foods |-> <<>>, relocated |-> <<>>]

ColIdle ==
    /\ col_in = [config |-> CHOOSE cfg \in ColConfigs : cfg.world.food_size = 0,
                 animals |-> <<>>, foods |-> <<>>]
    /\ col_out = ColNotCalled
    /\ col_pc = "idle"

ColInit ==
    /\ \E cfg \in ColConfigs : \E w \in ColWorlds :
           col_in = [config |-> cfg, animals |-> w.animals, foods |-> w.foods]
    /\ col_out = ColNotCalled
    /\ col_pc = "ready"

\* One call of process_collisions(random)
ColCollide ==
    /\ col_pc = "ready"
    /\ col_out' \in collide(col_in.config, col_in.animals, col_in.foods)
    /\ col_pc' = "done"
    /\ UNCHANGED col_in

(***************************************************************************)
(* The snapshot simulation::evolve takes of the animals, on bounded inputs *)
(***************************************************************************)
SnapConfigs == {[genetic |-> [reverse |-> rv]] : rv \in BOOLEAN}

\* Animals as a generation leaves them: any counters, brains that play no part here
SnapAnimals ==
    UNION {[1..n -> {[food_eaten |-> f, brain |-> <<>>] : f \in 0..MaxFoodEaten}] :
               n \in 0..MaxAnimals}

SnapNotCalled == [individuals |-> <<>>, animals |-> <<>>]

SnapIdle ==
    /\ snap_in = [config |-> CHOOSE cfg \in SnapConfigs : ~cfg.genetic.reverse,
                  animals |-> <<>>]
    /\ snap_out = SnapNotCalled
    /\ snap_pc = "idle"

SnapInit ==
    /\ snap_in \in [config : SnapConfigs, animals : SnapAnimals]
    /\ snap_out = SnapNotCalled
    /\ snap_pc = "ready"

\* The part of evolve before the genetic algorithm is built. std::max_element over an
\* empty vector returns end(), and dereferencing it is undefined: the call faults, or
\* reads garbage and finds no individual to invert.
SnapTake ==
    /\ snap_pc = "ready"
    /\ \/ /\ snap_out' = snapshot(snap_in.config, snap_in.animals)
          /\ snap_pc' = "done"
       \/ /\ snap_in.config.genetic.reverse /\ snap_in.animals = <<>>
          /\ snap_out' = snap_out
          /\ snap_pc' = "fault"
    /\ UNCHANGED snap_in

(***************************************************************************)
(* simulation::animal: process_brain and process_movement. Positions and   *)
(* speeds are in 1/RngSteps; angles are in eighths of a turn.              *)
(***************************************************************************)
\* constants::k_pi and constants::k_two_pi, in eighths of a turn
k_pi == 4
k_two_pi == 8

\* The quotient n / d rounded to the nearest integer (d > 0), halves away from zero
Nearest(n, d) == IF n >= 0 THEN (2 * n + d) \div (2 * d) ELSE -((d - 2 * n) \div (2 * d))

\* std::fmod(x, y) for y > 0: the remainder has the sign of x
fmod(x, y) == IF x >= 0 THEN x % y ELSE -((-x) % y)

\* std::clamp(v, lo, hi), lo <= hi
clamp(v, lo, hi) == IF v < lo THEN lo ELSE IF hi < v THEN hi ELSE v

\* std::cosf and std::sinf of an angle in eighths of a turn, in tenths
cosf(rotation) == <<10, 7, 0, -7, -10, -7, 0, 7>>[(rotation % k_two_pi) + 1]
sinf(rotation) == <<0, 7, 10, 7, 0, -7, -10, -7>>[(rotation % k_two_pi) + 1]

\* wrap of animal.cc with the branch for a negative remainder left out
wrap_without_correction(value, min, max) ==
    LET width == max - min
        wrapped_value == fmod(value - min, width)
    IN wrapped_value + min

\* static float wrap(float value, float min, float max)
wrap(value, min, max) ==
    LET width == max - min
        wrapped_value == fmod(value - min, width)
    IN (IF wrapped_value < 0 THEN wrapped_value + width ELSE wrapped_value) + min

\* random.generate_rotation(): generate_position() * pi
generate_rotation(d) == (generate_position(d) * k_pi) \div RngSteps

\* animal::animal(config, random, brain)
new_animal(sim, dx, dy, dr) ==
    [position |-> <<generate_position(dx), generate_position(dy)>>,
     rotation |-> generate_rotation(dr),
     speed    |-> sim.speed_max]

\* brain::propagate from the two responses of the network on. r0 and r1 are
\* clamp(response, 0, 1) - 0.5 in halves (-1, 0, 1 for -0.5, 0, 0.5). The sum is a speed
\* (1/RngSteps each unit); the difference is an angle in radians, 1 radian being
\* 400/314 eighths of a turn.
brain_propagate(sim, r0, r1) ==
    [speed    |-> clamp(Nearest((r0 + r1) * RngSteps, 2), -sim.speed_accel, sim.speed_accel),
     rotation |-> clamp(Nearest((r0 - r1) * 400, 2 * 314),
                        -sim.rotation_accel, sim.rotation_accel)]

\* animal::process_brain, from the outputs of the brain on
process_brain(sim, animal, outputs) ==
    LET speed_ == clamp(animal.speed + outputs.speed, sim.speed_min, sim.speed_max)
        rotation_ == fmod(animal.rotation + outputs.rotation, k_two_pi)
    IN [animal EXCEPT !.speed = speed_, !.rotation = rotation_]

\* animal::process_movement, up to the calls of wrap: <<new_x, new_y>>
movement_target(animal) ==
    <<animal.position[1] + Nearest(animal.speed * cosf(animal.rotation), 10),
      animal.position[2] + Nearest(animal.speed * sinf(animal.rotation), 10)>>

\* animal::process_movement
process_movement(animal) ==
    LET new == movement_target(animal)
    IN [animal EXCEPT !.position = <<wrap(new[1], 0, RngSteps), wrap(new[2], 0, RngSteps)>>]

\* config.sim: speed_min <= speed_max (std::clamp is undefined otherwise);
\* rotation_accel is rotation_accel_deg * k_deg_to_rad: 0, 45 or 90 degrees
AniConfigs ==
    {[speed_min |-> lo, speed_max |-> hi, speed_accel |-> 1, rotation_accel |-> ra] :
        lo \in 0..1, hi \in 1..MaxSpeed, ra \in 0..2}

AniIdle ==
    /\ ani_cfg = CHOOSE sim \in AniConfigs :
                     sim.speed_min = 0 /\ sim.speed_max = 1 /\ sim.rotation_accel = 0
    /\ ani = [position |-> <<0, 0>>, rotation |-> 0, speed |-> 0]
    /\ ani_new = <<0, 0>>
    /\ ani_pc = "idle"

\* animal::random, or the animal evolve builds from a chromosome
AniInit ==
    /\ ani_cfg \in AniConfigs
    /\ \E dx, dy, dr \in RngDraws : ani = new_animal(ani_cfg, dx, dy, dr)
    /\ ani_new = ani.position
    /\ ani_pc = "process_brain"

\* simulation::process_brains reaches the animal. The network answers with any two
\* responses (they depend on the weights and on what the eye sees); propagate cannot
\* fail, the vision having num_cells entries.
AniProcessBrain ==
    /\ ani_pc = "process_brain"
    /\ \E r0, r1 \in {-1, 0, 1} :
           ani' = process_brain(ani_cfg, ani, brain_propagate(ani_cfg, r0, r1))
    /\ ani_pc' = "process_movement"
    /\ UNCHANGED <<ani_cfg, ani_new>>

\* simulation::process_movements reaches the animal
AniProcessMovement ==
    /\ ani_pc = "process_movement"
    /\ ani_new' = movement_target(ani)
    /\ ani' = process_movement(ani)
    /\ ani_pc' = "process_brain"
    /\ UNCHANGED ani_cfg

(***************************************************************************)
(* simulation_runner::generate_combinations                                *)
(***************************************************************************)
\* struct parameter_options: fov ranges and mutation coefficients in hundredths,
\* mutation chances in thousandths
parameter_options ==
    [brain_neurons     |-> <<2, 3, 5, 10>>,
     eye_fov_range     |-> <<10, 25, 33, 50>>,
     eye_fov_angle_deg |-> <<45, 90, 180, 225>>,
     eye_cells         |-> <<2, 3, 6, 9, 12>>,
     ga_mut_chance     |-> <<1, 10, 100, 500>>,
     ga_mut_coeff      |-> <<1, 10, 30, 50, 100>>]

Axes == DOMAIN parameter_options

\* The arrays cut to their first size[axis] values
OptionsOfSize(size) ==
    [axis \in Axes |-> SubSeq(parameter_options[axis], 1, size[axis])]

\* simulation::config params; the members generate_combinations can reach, with their
\* default values (config.h), in the units of parameter_options
default_config ==
    [brain_eye |-> [fov_range |-> 25, fov_angle_deg |-> 225, num_cells |-> 9,
                    num_neurons |-> 9],
     genetic   |-> [mutation_chance |-> 10, mutation_coeff |-> 30]]

\* The body of the innermost loop: the parameter set built from the six loop variables
parameter_set(brain_neurons, eye_fov_range, eye_fov_angle_deg, eye_cells, mutation_chance, mutation_coeff) ==
    LET params0 == default_config
        params1 == [params0 EXCEPT !.brain_eye.num_neurons = brain_neurons]
        params2 == [params1 EXCEPT !.brain_eye.fov_angle_deg = eye_fov_range]
        params3 == [params2 EXCEPT !.brain_eye.fov_angle_deg = eye_fov_angle_deg]
        params4 == [params3 EXCEPT !.brain_eye.num_cells = eye_cells]
        params5 == [params4 EXCEPT !.genetic.mutation_chance = mutation_chance]
        params6 == [params5 EXCEPT !.genetic.mutation_coeff = mutation_coeff]
    IN params6

\* The six nested loops: the k-th push_back is made with the loop variables at the
\* indices the loops have then, the innermost loop running fastest.
generate_combinations(opts) ==
    LET n(axis) == Len(opts[axis])
        s6 == 1
        s5 == s6 * n("ga_mut_coeff")
        s4 == s5 * n("ga_mut_chance")
        s3 == s4 * n("eye_cells")
        s2 == s3 * n("eye_fov_angle_deg")
        s1 == s2 * n("eye_fov_range")
        total == s1 * n("brain_neurons")
        at(axis, stride, k) == opts[axis][(((k - 1) \div stride) % n(axis)) + 1]
    IN [k \in 1..total |->
           parameter_set(at("brain_neurons", s1, k), at("eye_fov_range", s2, k),
                         at("eye_fov_angle_deg", s3, k), at("eye_cells", s4, k),
                         at("ga_mut_chance", s5, k), at("ga_mut_coeff", s6, k))]

GcIdle ==
    /\ options = OptionsOfSize([axis \in Axes |-> 1])
    /\ combinations = <<>>
    /\ gc_pc = "idle"

\* run() is about to call generate_combinations()
GcInit ==
    /\ \E size \in [Axes -> 1..MaxAxisValues] : options = OptionsOfSize(size)
    /\ combinations = <<>>
    /\ gc_pc = "ready"

\* auto combinations = generate_combinations();
GcGenerate ==
    /\ gc_pc = "ready"
    /\ combinations' = generate_combinations(options)
    /\ gc_pc' = "done"
    /\ UNCHANGED options

(***************************************************************************)
(* neural_network: neuron, layer and network built from flat weights       *)
(***************************************************************************)
\* The values a weight takes
WeightValues == {0, 1}

\* A value of tl::expected: a value, or an error
Expected(value) == [ok |-> TRUE, value |-> value, error |-> "none"]
Unexpected(error) == [ok |-> FALSE, value |-> <<>>, error |-> error]

\* neuron::from_weights: the first weight is the bias
neuron_from_weights(input_size, weights) ==
    IF Len(weights) # input_size + 1
    THEN Unexpected("k_invalid_weights_size")
    ELSE Expected([bias |-> weights[1], weights |-> Tail(weights)])

\* neuron::to_weights with the bias put last
neuron_to_weights_bias_last(neuron) == neuron.weights \o <<neuron.bias>>

\* neuron::to_weights: the bias first, then the weights
neuron_to_weights(neuron) == <<neuron.bias>> \o neuron.weights

\* layer::create
layer_create(neurons) ==
    IF neurons = <<>>
    THEN Unexpected("k_empty_neurons")
    ELSE IF \E n \in DOMAIN neurons :
                Len(neurons[n].weights) # Len(neurons[1].weights)
         THEN Unexpected("k_mismatched_inputs")
         ELSE Expected(neurons)

\* layer::from_weights
layer_from_weights(input_size, output_size, weights) ==
    LET weights_per_neuron == input_size + 1
        neuron_result(i) ==
            neuron_from_weights(input_size,
                SubSeq(weights, (i - 1) * weights_per_neuron + 1, i * weights_per_neuron))
    IN IF Len(weights) < weights_per_neuron * output_size
       THEN Unexpected("k_not_enough_weights")
       ELSE IF \E i \in 1..output_size : ~neuron_result(i).ok
            THEN Unexpected("k_not_enough_weights")
            ELSE layer_create([i \in 1..output_size |-> neuron_result(i).value])

\* The precondition of span::subspan(offset, count)
subspan_expects(span, offset, count) ==
    offset <= Len(span) /\ offset + count <= Len(span)

\* span::subspan(offset, count) as it is built, precondition or not: count elements from
\* data() + offset; an element past the end of the storage reads as garbage
subspan(span, offset, count, garbage) ==
    [j \in 1..count |-> IF offset + j <= Len(span) THEN span[offset + j] ELSE garbage]

\* What a call of network::from_weights produces
Returned(result) == [kind |-> "returned", result |-> result]
Terminated == [kind |-> "terminated", result |-> Unexpected("none")]

\* The loop of network::from_weights from layer i on.  contract says what a violated
\* precondition of subspan does in the build: "terminates" (the library's contract check
\* ends the call without a result) or "unchecked" (the span is made anyway).
RECURSIVE from_weights_loop(_, _, _, _, _, _, _)
from_weights_loop(topology, weights, i, current_offset, layers, contract, garbage) ==
    IF i > Len(topology) - 1
    THEN IF current_offset # Len(weights)
         THEN Returned(Unexpected("k_too_many_weights"))
         ELSE Returned(Expected(layers))
    ELSE LET weights_per_layer == (topology[i] + 1) * topology[i + 1]
             layer_weights == subspan(weights, current_offset, weights_per_layer, garbage)
             layer_result == layer_from_weights(topology[i], topology[i + 1], layer_weights)
         IN IF ~subspan_expects(weights, current_offset, weights_per_layer)
                  /\ contract = "terminates"
            THEN Terminated
            ELSE IF ~layer_result.ok
                 THEN IF layer_result.error = "k_not_enough_weights"
                      THEN Returned(Unexpected("k_not_enough_weights"))
                      ELSE Returned(Unexpected("k_invalid_layer_topology"))
                 ELSE from_weights_loop(topology, weights, i + 1,
                                        current_offset + weights_per_layer,
                                        Append(layers, layer_result.value),
                                        contract, garbage)

\* network::from_weights
network_from_weights(topology, weights, contract, garbage) ==
    IF Len(topology) < 2
    THEN Returned(Unexpected("k_invalid_layer_count"))
    ELSE from_weights_loop(topology, weights, 1, 0, <<>>, contract, garbage)

\* The weights of the neurons of one layer, from neuron n on
RECURSIVE layer_weights_from(_, _)
layer_weights_from(neurons, n) ==
    IF n > Len(neurons) THEN <<>>
    ELSE neuron_to_weights(neurons[n]) \o layer_weights_from(neurons, n + 1)

\* network::weights, from layer l on
RECURSIVE network_weights_from(_, _)
network_weights_from(layers, l) ==
    IF l > Len(layers) THEN <<>>
    ELSE layer_weights_from(layers[l], 1) \o network_weights_from(layers, l + 1)

\* network::weights
network_weights(layers) == network_weights_from(layers, 1)

Topologies == UNION {[1..n -> 0..MaxNeurons] : n \in 1..MaxLayers}
FlatWeights == UNION {[1..n -> WeightValues] : n \in 0..MaxWeights}

NetIdle ==
    /\ net_topology = <<>>
    /\ net_weights = <<>>
    /\ net_result = Terminated
    /\ net_flat = <<>>
    /\ net_pc = "idle"

\* A caller is about to hand a topology and flat weights to from_weights
NetInit ==
    /\ net_topology \in Topologies
    /\ net_weights \in FlatWeights
    /\ net_result = Terminated
    /\ net_flat = <<>>
    /\ net_pc = "ready"

\* auto network1 = network<float>::from_weights(topology, weights);
NetFromWeights ==
    /\ net_pc = "ready"
    /\ \E contract \in {"terminates", "unchecked"}, garbage \in WeightValues :
           net_result' = network_from_weights(net_topology, net_weights, contract, garbage)
    /\ net_pc' = net_result'.kind
    /\ UNCHANGED <<net_topology, net_weights, net_flat>>

\* auto extracted_weights = network1->weights();
NetWeights ==
    /\ net_pc = "returned"
    /\ net_result.result.ok
    /\ net_flat' = network_weights(net_result.result.value)
    /\ net_pc' = "flattened"
    /\ UNCHANGED <<net_topology, net_weights, net_result>>

(***************************************************************************)
(* One call of an operation of a library                                   *)
(***************************************************************************)
OpNotCalled == [kind |-> "none"]

OpIdle ==
    /\ op_in = [kind |-> "none"]
    /\ op_out = OpNotCalled
    /\ op_pc = "idle"

\* The call is about to be made on one of the given arguments
OpInit(inputs) ==
    /\ op_in \in inputs
    /\ op_out = OpNotCalled
    /\ op_pc = "ready"

\* The call returns one of the given outcomes
OpCall(outcomes) ==
    /\ op_pc = "ready"
    /\ op_out' \in outcomes
    /\ op_pc' = "done"
    /\ UNCHANGED op_in

(***************************************************************************)
(* selection_strategy::select called on a population                       *)
(***************************************************************************)
SelIndividuals == {[fitness |-> f, chromosome |-> <<>>] : f \in 0..(MaxFitness + 1)}

SelPopulations == UNION {[1..n -> SelIndividuals] : n \in 0..MaxSelected}

\* roulette_wheel_selection(reversed) and tournament_selection(tournament_size, reversed)
SelSelections ==
    {[kind |-> "roulette_wheel", reversed |-> r] : r \in BOOLEAN}
    \cup {[kind |-> "tournament", tournament_size |-> k, reversed |-> r] :
             k \in 0..MaxTournament, r \in BOOLEAN}

SelInit == OpInit([kind : {"select"}, selection : SelSelections, population : SelPopulations])

\* selector.select(population, random): the result with the draws behind it
SelSelect ==
    /\ op_in.kind = "select"
    /\ OpCall(IF op_in.selection.kind = "roulette_wheel"
              THEN {[result |-> roulette_wheel_select(op_in.population, d),
                     draw |-> d, tournament_indices |-> <<>>] : d \in RngDraws}
              ELSE IF op_in.population = <<>> \/ op_in.selection.tournament_size = 0
              THEN {[result |-> tournament_select(op_in.population,
                                    op_in.selection.tournament_size,
                                    op_in.selection.reversed, <<>>),
                     draw |-> 0, tournament_indices |-> <<>>]}
              ELSE {[result |-> tournament_select(op_in.population,
                                    op_in.selection.tournament_size,
                                    op_in.selection.reversed, s),
                     draw |-> 0, tournament_indices |-> s] :
                       s \in TournamentDraws(op_in.population,
                                             op_in.selection.tournament_size)})

(***************************************************************************)
(* crossover_strategy::crossover called on two parents                     *)
(***************************************************************************)
\* The loop of uniform_crossover::crossover: draws[i] decides gene i
uniform_crossover(parent1, parent2, swap_probability, draws) ==
    [i \in 1..Len(parent1) |->
        uniform_crossover_gene(parent1[i], parent2[i], swap_probability, draws[i])]

CrossParents == UNION {[1..n -> {0, 1}] : n \in 0..MaxParentGenes}

\* single_point_crossover() and uniform_crossover(swap_probability)
CrossCrossovers ==
    {[kind |-> "single_point"]}
    \cup {[kind |-> "uniform", swap_probability |-> p] : p \in {<<0, 1>>, <<1, 2>>, <<1, 1>>}}

CrossInit ==
    OpInit([kind : {"crossover"}, crossover : CrossCrossovers,
            parent1 : CrossParents, parent2 : CrossParents])

\* crossover.crossover(parent1, parent2, rand): the result with the draws behind it
CrossCrossover ==
    /\ op_in.kind = "crossover"
    /\ OpCall(IF Len(op_in.parent1) # Len(op_in.parent2)
              THEN {[result |-> Err("k_invalid_parent_size"), draws |-> <<>>]}
              ELSE IF op_in.crossover.kind = "single_point"
              THEN {[result |-> [ok |-> TRUE,
                                 chromosome |-> single_point_crossover(op_in.parent1,
                                                    op_in.parent2, d)],
                     draws |-> <<d>>] : d \in RngDraws}
              ELSE {[result |-> [ok |-> TRUE,
                                 chromosome |-> uniform_crossover(op_in.parent1,
                                                    op_in.parent2,
                                                    op_in.crossover.swap_probability, ds)],
                     draws |-> ds] : ds \in [1..Len(op_in.parent1) -> RngDraws]})

(***************************************************************************)
(* mutation_strategy::mutate called on a chromosome                        *)
(***************************************************************************)
\* The loop of gaussian_mutation::mutate: draws[i] are the three draws for gene i
gaussian_mutate(chromosome, mutation, draws) ==
    [i \in DOMAIN chromosome |->
        gaussian_mutate_gene(chromosome[i], mutation.mutation_probability,
                             mutation.mutation_strength,
                             draws[i][1], draws[i][2], draws[i][3])]

\* The draws the loop makes for one gene: the second and third only inside the if
DrawsMade(mutation, draws) ==
    [i \in DOMAIN draws |->
        IF LessThanProbability(generate_position(draws[i][1]), mutation.mutation_probability)
        THEN draws[i] ELSE <<draws[i][1]>>]

MutChromosomes == UNION {[1..n -> {0, 1}] : n \in 0..MaxMutatedGenes}

\* gaussian_mutation(mutation_probability, mutation_strength)
MutMutations ==
    {[kind |-> "gaussian", mutation_probability |-> p, mutation_strength |-> c] :
        p \in {<<0, 1>>, <<1, 2>>, <<1, 1>>}, c \in 0..MaxStrength}

MutInit == OpInit([kind : {"mutate"}, mutation : MutMutations, chromosome : MutChromosomes])

\* mutation.mutate(chromo, rng): the chromosome it leaves, with the draws behind it
MutMutate ==
    /\ op_in.kind = "mutate"
    /\ OpCall({[result |-> [ok |-> TRUE,
                            chromosome |-> gaussian_mutate(op_in.chromosome,
                                                           op_in.mutation, ds)],
                draws |-> DrawsMade(op_in.mutation, ds)] :
                  ds \in [DOMAIN op_in.chromosome -> RngDraws \X RngDraws \X RngDraws]})

(***************************************************************************)
(* Two runs of genetic_algorithm<T>::evolve, each on its own random_generator(seed) *)
(***************************************************************************)
\* A seed stands for the sequence of values the engine seeded with it returns
Seeds == [1..StreamLength -> RngDraws]

\* random_generator() without a seed: generator_(std::random_device{}()), a state that
\* differs from one instance to the next
random_generator_from_device(seed, instance) ==
    [stream |-> seed, pos |-> IF instance = "a" THEN 0 ELSE 1]

\* explicit random_generator(std::uint64_t seed) : generator_(seed)
random_generator(seed, instance) == [stream |-> seed, pos |-> 0]

\* default_distribution_(generator_): the value returned, and the generator after it
rng_value(rng) == rng.stream[(rng.pos % Len(rng.stream)) + 1]
rng_after(rng, draws) == [rng EXCEPT !.pos = @ + draws]

\* The do-while of tournament_selection::select for the candidates still to draw.
\* candidate_index = static_cast<size_t>(generate_in_range(0, size)), clamped to size - 1;
\* a candidate already in tournament_indices is drawn again. When the generator has
\* gone once round its values without a new candidate the loop never ends.
RECURSIVE draw_candidates(_, _, _, _, _)
draw_candidates(rng, size, tournament_indices, wanted, tries) ==
    IF Len(tournament_indices) = wanted
    THEN [ended |-> TRUE, tournament_indices |-> tournament_indices, rng |-> rng]
    ELSE IF tries >= Len(rng.stream)
    THEN [ended |-> FALSE, tournament_indices |-> tournament_indices, rng |-> rng]
    ELSE LET in_range == (generate_position(rng_value(rng)) * size) \div RngSteps
             candidate_index == IF in_range >= size THEN size - 1 ELSE in_range
         IN IF candidate_index + 1 \in Range(tournament_indices)
            THEN draw_candidates(rng_after(rng, 1), size, tournament_indices, wanted,
                                 tries + 1)
            ELSE draw_candidates(rng_after(rng, 1), size,
                                 Append(tournament_indices, candidate_index + 1), wanted, 0)

\* selection_->select(population, random_gen)
select_with(selection, population, rng) ==
    IF selection.kind = "roulette_wheel"
    THEN [ended |-> TRUE, result |-> roulette_wheel_select(population, rng_value(rng)),
          rng |-> rng_after(rng, 1)]
    ELSE LET wanted == IF selection.tournament_size < Len(population)
                       THEN selection.tournament_size ELSE Len(population)
             drawn == draw_candidates(rng, Len(population), <<>>, wanted, 0)
         IN [ended |-> drawn.ended,
             result |-> IF drawn.ended
                        THEN tournament_select(population, selection.tournament_size,
                                               selection.reversed, drawn.tournament_indices)
                        ELSE Err("none"),
             rng |-> drawn.rng]

\* crossover_->crossover(parent_a_chromosome, parent_b_chromosome, random_gen)
crossover_with(crossover, parent1, parent2, rng) ==
    IF Len(parent1) # Len(parent2)
    THEN [result |-> Err("k_invalid_parent_size"), rng |-> rng]
    ELSE IF crossover.kind = "single_point"
    THEN [result |-> [ok |-> TRUE,
                      chromosome |-> single_point_crossover(parent1, parent2, rng_value(rng))],
          rng |-> rng_after(rng, 1)]
    ELSE [result |-> [ok |-> TRUE,
                      chromosome |-> uniform_crossover(parent1, parent2,
                                         crossover.swap_probability,
                                         [i \in 1..Len(parent1) |->
                                             rng_value(rng_after(rng, i - 1))])],
          rng |-> rng_after(rng, Len(parent1))]

\* mutation_->mutate(child_chromosome, random_gen), from gene i on
RECURSIVE mutate_with(_, _, _, _)
mutate_with(mutation, chromosome, i, rng) ==
    IF i > Len(chromosome) THEN [chromosome |-> chromosome, rng |-> rng]
    ELSE LET hit == LessThanProbability(generate_position(rng_value(rng)),
                                        mutation.mutation_probability)
             gene == gaussian_mutate_gene(chromosome[i], mutation.mutation_probability,
                         mutation.mutation_strength, rng_value(rng),
                         rng_value(rng_after(rng, 1)), rng_value(rng_after(rng, 2)))
         IN mutate_with(mutation, [chromosome EXCEPT ![i] = gene], i + 1,
                        rng_after(rng, IF hit THEN 3 ELSE 1))

\* A run that has not called evolve yet
RunOf(rng) ==
    [rng |-> rng, selections |-> <<>>, children |-> <<>>, mutated |-> <<>>,
     next_generation |-> <<>>, state |-> "evolving"]

\* One pass through the body of the while loop of evolve, on the generator of the run
evolve_iteration(run, population, ga) ==
    LET parent_a_result == select_with(ga.selection, population, run.rng)
        parent_b_result == select_with(ga.selection, population, parent_a_result.rng)
        parent_a == population[parent_a_result.result.index]
        parent_b == population[parent_b_result.result.index]
        child_chromosome_result ==
            crossover_with(ga.crossover, parent_a.chromosome, parent_b.chromosome,
                           parent_b_result.rng)
        mutated_result ==
            mutate_with(ga.mutation, child_chromosome_result.result.chromosome, 1,
                        child_chromosome_result.rng)
        selected == <<parent_a_result.result.index, parent_b_result.result.index>>
        new_individual == [fitness |-> 0, chromosome |-> mutated_result.chromosome]
    IN IF ~parent_a_result.ended
       THEN [run EXCEPT !.state = "never returns", !.rng = parent_a_result.rng]
       ELSE IF ~parent_b_result.ended
       THEN [run EXCEPT !.state = "never returns", !.rng = parent_b_result.rng,
                        !.selections = @ \o <<parent_a_result.result.index>>]
       ELSE IF ~child_chromosome_result.result.ok
       THEN [run EXCEPT !.state = "error", !.rng = child_chromosome_result.rng,
                        !.selections = @ \o selected, !.next_generation = <<>>]
       ELSE [rng |-> mutated_result.rng,
             selections |-> run.selections \o selected,
             children |-> Append(run.children, child_chromosome_result.result.chromosome),
             mutated |-> Append(run.mutated, mutated_result.chromosome),
             next_generation |-> Append(run.next_generation, new_individual),
             state |-> IF Len(run.next_generation) + 1 >= Len(population)
                       THEN "returned" ELSE "evolving"]

RunIndividuals ==
    {[fitness |-> 0, chromosome |-> <<0, 0>>], [fitness |-> 1, chromosome |-> <<1, 1>>],
     [fitness |-> 1, chromosome |-> <<0>>]}

RunPopulations == UNION {[1..n -> RunIndividuals] : n \in 1..MaxRunPopulation}

RunStrategies ==
    [selection : {[kind |-> "roulette_wheel", reversed |-> FALSE],
                  [kind |-> "tournament", tournament_size |-> 2, reversed |-> FALSE]},
     crossover : {[kind |-> "single_point"],
                  [kind |-> "uniform", swap_probability |-> <<1, 2>>]},
     mutation  : {[kind |-> "gaussian", mutation_probability |-> <<1, 2>>,
                   mutation_strength |-> 1]}]

\* Two generators are made from one seed and two runs are given the same population
TwoRunsInit ==
    /\ op_in \in [kind : {"evolve twice"}, seed : Seeds, population : RunPopulations,
                  ga : RunStrategies]
    /\ op_out = [instance \in {"a", "b"} |-> RunOf(random_generator(op_in.seed, instance))]
    /\ op_pc = "running"

\* One of the runs goes once through the loop of evolve
TwoRunsStep(instance) ==
    /\ op_in.kind = "evolve twice"
    /\ op_out[instance].state = "evolving"
    /\ op_out' = [op_out EXCEPT
                     ![instance] = evolve_iteration(@, op_in.population, op_in.ga)]
    /\ UNCHANGED <<op_in, op_pc>>

(***************************************************************************)
(* chromosome::at and chromosome::slice                                    *)
(***************************************************************************)
size_type == 0..(SizeTypeValues - 1)

\* start + count on size_type: unsigned, modulo the number of its values
size_type_sum(x, y) == (x + y) % SizeTypeValues

\* chromosome::at(pos)
chromosome_at(genes_, pos) ==
    IF pos >= Len(genes_)
    THEN Err("k_index_out_of_bounds")
    ELSE [ok |-> TRUE, value |-> genes_[pos + 1]]

\* chromosome::slice(start, count): the span is genes_.data() + start with count elements
chromosome_slice(genes_, start, count) ==
    IF start >= Len(genes_) \/ size_type_sum(start, count) > Len(genes_)
    THEN Err("k_index_out_of_bounds")
    ELSE [ok |-> TRUE, span |-> [offset |-> start, size |-> count]]

ChromGenes == UNION {[1..n -> {0, 1}] : n \in 0..MaxSlicedGenes}

ChromInit ==
    OpInit([kind : {"at"}, genes_ : ChromGenes, pos : size_type]
           \cup [kind : {"slice"}, genes_ : ChromGenes, start : size_type, count : size_type])

\* auto result = chromo.at(pos);
ChromAt ==
    /\ op_in.kind = "at"
    /\ OpCall({chromosome_at(op_in.genes_, op_in.pos)})

\* auto result = chromo.slice(start, count);
ChromSlice ==
    /\ op_in.kind = "slice"
    /\ OpCall({chromosome_slice(op_in.genes_, op_in.start, op_in.count)})

(***************************************************************************)
(* analyze::run_analysis on a log that was read and parsed                 *)
(***************************************************************************)
\* compute_stats; avg_fitness and median_fitness are exact fractions
compute_stats(fitnesses) ==
    LET size == Len(fitnesses)
        mid == size \div 2
    IN [min_fitness    |-> Min(Range(fitnesses)),
        max_fitness    |-> Max(Range(fitnesses)),
        avg_fitness    |-> <<SumSeq(fitnesses, size), size>>,
        median_fitness |->
            IF size % 2 = 0
            THEN <<SortedFitnessAt(fitnesses, mid) + SortedFitnessAt(fitnesses, mid + 1), 2>>
            ELSE <<SortedFitnessAt(fitnesses, mid + 1), 1>>]

\* fitnesses_by_generation[generation]: stats.b of the entries of the generation, in
\* the order of the log
RECURSIVE fitnesses_of(_, _)
fitnesses_of(input_data, generation) ==
    IF input_data = <<>> THEN <<>>
    ELSE (IF Head(input_data).g = generation THEN <<Head(input_data).b>> ELSE <<>>)
             \o fitnesses_of(Tail(input_data), generation)

\* The statistics of each generation, in the order of the keys of the std::map
RECURSIVE stats_by_generation(_, _)
stats_by_generation(input_data, generations) ==
    IF generations = {} THEN <<>>
    ELSE LET gen == Min(generations)
         IN <<compute_stats(fitnesses_of(input_data, gen))>>
                \o stats_by_generation(input_data, generations \ {gen})

\* (back - front) / (size - 1) of min_fitness, max_fitness and avg_fitness, as fractions
improvement_rates(stats) ==
    LET front == stats[1]
        back == stats[Len(stats)]
        steps == Len(stats) - 1
    IN [min_fitness |-> <<back.min_fitness - front.min_fitness, steps>>,
        max_fitness |-> <<back.max_fitness - front.max_fitness, steps>>,
        avg_fitness |-> <<back.avg_fitness[1] * front.avg_fitness[2]
                            - front.avg_fitness[1] * back.avg_fitness[2],
                          back.avg_fitness[2] * front.avg_fitness[2] * steps>>]

\* run_analysis from the loop over the entries on: every way the call can end. With no
\* entry the four vectors stay empty and min_fitness.back() is called on an empty
\* vector, which is undefined: the call faults, or goes on with whatever it read
\* (final_stats is then <<>>: no statistics, values that are not determined).
run_analysis(input_data, output) ==
    LET generations == {input_data[e].g : e \in DOMAIN input_data}
        stats == stats_by_generation(input_data, generations)
        Completed(final_stats) ==
            [kind |-> "returned", generations |-> Len(stats), final_stats |-> final_stats,
             improvement_rates |-> IF Len(stats) >= 2
                                   THEN <<improvement_rates(stats)>> ELSE <<>>,
             saved |-> output]
    IN IF stats = <<>>
       THEN {[kind |-> "fault"], Completed(<<>>)}
       ELSE {Completed(<<stats[Len(stats)]>>)}

\* Entries of a log: ctxt.g and stats.b
AnalyzeLogs == UNION {[1..n -> [g : 0..2, b : 0..1]] : n \in 0..MaxLogEntries}

AnalyzeInit == OpInit([kind : {"analyze"}, input_data : AnalyzeLogs, output : BOOLEAN])

AnalyzeRun ==
    /\ op_in.kind = "analyze"
    /\ OpCall(run_analysis(op_in.input_data, op_in.output))

LibIdle == ColIdle /\ SnapIdle /\ AniIdle /\ GcIdle /\ NetIdle /\ OpIdle

(***************************************************************************)
(* Specifications                                                          *)
(***************************************************************************)
InitGA == GaInit /\ SimIdle /\ RunIdle /\ UiIdle /\ LibIdle
NextGA == GaEvolve /\ UNCHANGED <<sim_vars, run_vars, ui_vars, lib_vars>>
SpecGA == InitGA /\ [][NextGA]_vars

InitSim == SimInit /\ GaIdle /\ RunIdle /\ UiIdle /\ LibIdle
NextSim ==
    \/ SimStep /\ UNCHANGED <<ga_vars, run_vars, ui_vars, lib_vars>>
    \/ TrainCall /\ UNCHANGED <<ga_vars, run_vars, ui_vars, lib_vars>>
    \/ TrainLoop /\ UNCHANGED <<ga_vars, run_vars, ui_vars, lib_vars>>
SpecSim == InitSim /\ [][NextSim]_vars

InitRun == RunInit /\ GaIdle /\ SimIdle /\ UiIdle /\ LibIdle
NextRun ==
    \/ RunStart /\ UNCHANGED <<ga_vars, sim_vars, ui_vars, lib_vars>>
    \/ RunSchedule /\ UNCHANGED <<ga_vars, sim_vars, ui_vars, lib_vars>>
    \/ RunGet /\ UNCHANGED <<ga_vars, sim_vars, ui_vars, lib_vars>>
    \/ RunSetDone /\ UNCHANGED <<ga_vars, sim_vars, ui_vars, lib_vars>>
    \/ RunJoin /\ UNCHANGED <<ga_vars, sim_vars, ui_vars, lib_vars>>
    \/ RunSave /\ UNCHANGED <<ga_vars, sim_vars, ui_vars, lib_vars>>
    \/ RunUnwind /\ UNCHANGED <<ga_vars, sim_vars, ui_vars, lib_vars>>
    \/ \E t \in Tasks : TaskStart(t) /\ UNCHANGED <<ga_vars, sim_vars, ui_vars, lib_vars>>
    \/ \E t \in Tasks : TaskTrain(t) /\ UNCHANGED <<ga_vars, sim_vars, ui_vars, lib_vars>>
    \/ \E t \in Tasks : TaskLock(t) /\ UNCHANGED <<ga_vars, sim_vars, ui_vars, lib_vars>>
    \/ \E t \in Tasks : TaskPush(t) /\ UNCHANGED <<ga_vars, sim_vars, ui_vars, lib_vars>>
    \/ \E t \in Tasks : TaskCount(t) /\ UNCHANGED <<ga_vars, sim_vars, ui_vars, lib_vars>>
    \/ MonitorSleep /\ UNCHANGED <<ga_vars, sim_vars, ui_vars, lib_vars>>
    \/ MonitorProgress /\ UNCHANGED <<ga_vars, sim_vars, ui_vars, lib_vars>>
    \/ MonitorSummary /\ UNCHANGED <<ga_vars, sim_vars, ui_vars, lib_vars>>
SpecRun == InitRun /\ [][NextRun]_vars
\* progress_thread and the thread that called run() are threads of the operating system:
\* each keeps being scheduled while it has a step to take.
MonitorNext == (MonitorSleep \/ MonitorProgress \/ MonitorSummary) /\ UNCHANGED <<ga_vars, sim_vars, ui_vars, lib_vars>>
RunNext ==
    (RunStart \/ RunSchedule \/ RunGet \/ RunSetDone \/ RunJoin \/ RunSave \/ RunUnwind)
        /\ UNCHANGED <<ga_vars, sim_vars, ui_vars, lib_vars>>
FairSpecRun == SpecRun /\ WF_vars(MonitorNext) /\ WF_vars(RunNext)

InitUI == UiInit /\ GaIdle /\ SimIdle /\ RunIdle /\ LibIdle
NextUI ==
    \/ ThreadLoop /\ UNCHANGED <<ga_vars, sim_vars, run_vars, lib_vars>>
    \/ ThreadStepCall /\ UNCHANGED <<ga_vars, sim_vars, run_vars, lib_vars>>
    \/ ThreadStepReturn /\ UNCHANGED <<ga_vars, sim_vars, run_vars, lib_vars>>
    \/ ThreadLock /\ UNCHANGED <<ga_vars, sim_vars, run_vars, lib_vars>>
    \/ ThreadUpdateData /\ UNCHANGED <<ga_vars, sim_vars, run_vars, lib_vars>>
    \/ ThreadSleep /\ UNCHANGED <<ga_vars, sim_vars, run_vars, lib_vars>>
    \/ GuiRenderLock /\ UNCHANGED <<ga_vars, sim_vars, run_vars, lib_vars>>
    \/ GuiRenderUnlock /\ UNCHANGED <<ga_vars, sim_vars, run_vars, lib_vars>>
    \/ GuiTogglePause /\ UNCHANGED <<ga_vars, sim_vars, run_vars, lib_vars>>
    \/ GuiCall /\ UNCHANGED <<ga_vars, sim_vars, run_vars, lib_vars>>
    \/ GuiCallReturn /\ UNCHANGED <<ga_vars, sim_vars, run_vars, lib_vars>>
    \/ GuiTrain /\ UNCHANGED <<ga_vars, sim_vars, run_vars, lib_vars>>
    \/ GuiTrainCall /\ UNCHANGED <<ga_vars, sim_vars, run_vars, lib_vars>>
    \/ GuiTrainReturn /\ UNCHANGED <<ga_vars, sim_vars, run_vars, lib_vars>>
    \/ GuiTrainEnd /\ UNCHANGED <<ga_vars, sim_vars, run_vars, lib_vars>>
    \/ GuiStopThread /\ UNCHANGED <<ga_vars, sim_vars, run_vars, lib_vars>>
    \/ GuiJoin /\ UNCHANGED <<ga_vars, sim_vars, run_vars, lib_vars>>
SpecUI == InitUI /\ [][NextUI]_vars

InitCol == ColInit /\ SnapIdle /\ AniIdle /\ GcIdle /\ NetIdle /\ OpIdle /\ GaIdle /\ SimIdle /\ RunIdle /\ UiIdle
NextCol == ColCollide /\ UNCHANGED <<ga_vars, sim_vars, run_vars, ui_vars, op_vars, snap_vars, ani_vars, gc_vars, net_vars>>
SpecCol == InitCol /\ [][NextCol]_vars

InitSnap == SnapInit /\ ColIdle /\ AniIdle /\ GcIdle /\ NetIdle /\ OpIdle /\ GaIdle /\ SimIdle /\ RunIdle /\ UiIdle
NextSnap == SnapTake /\ UNCHANGED <<ga_vars, sim_vars, run_vars, ui_vars, op_vars, col_vars, ani_vars, gc_vars, net_vars>>

SpecSnap == InitSnap /\ [][NextSnap]_vars

InitAni == AniInit /\ ColIdle /\ SnapIdle /\ GcIdle /\ NetIdle /\ OpIdle /\ GaIdle /\ SimIdle /\ RunIdle /\ UiIdle
NextAni ==
    \/ AniProcessBrain /\ UNCHANGED <<ga_vars, sim_vars, run_vars, ui_vars, op_vars, col_vars, snap_vars, gc_vars, net_vars>>
    \/ AniProcessMovement /\ UNCHANGED <<ga_vars, sim_vars, run_vars, ui_vars, op_vars, col_vars, snap_vars, gc_vars, net_vars>>
SpecAni == InitAni /\ [][NextAni]_vars

InitGc == GcInit /\ ColIdle /\ SnapIdle /\ AniIdle /\ NetIdle /\ OpIdle /\ GaIdle /\ SimIdle /\ RunIdle /\ UiIdle
NextGc == GcGenerate /\ UNCHANGED <<ga_vars, sim_vars, run_vars, ui_vars, op_vars, col_vars, snap_vars, ani_vars, net_vars>>
SpecGc == InitGc /\ [][NextGc]_vars

InitNet == NetInit /\ ColIdle /\ SnapIdle /\ AniIdle /\ GcIdle /\ OpIdle /\ GaIdle /\ SimIdle /\ RunIdle /\ UiIdle
NextNet ==
    \/ NetFromWeights /\ UNCHANGED <<ga_vars, sim_vars, run_vars, ui_vars, op_vars, col_vars, snap_vars, ani_vars, gc_vars>>
    \/ NetWeights /\ UNCHANGED <<ga_vars, sim_vars, run_vars, ui_vars, op_vars, col_vars, snap_vars, ani_vars, gc_vars>>
SpecNet == InitNet /\ [][NextNet]_vars

OthersIdle ==
    /\ ColIdle /\ SnapIdle /\ AniIdle /\ GcIdle /\ NetIdle
    /\ GaIdle /\ SimIdle /\ RunIdle /\ UiIdle
others_vars ==
    <<ga_vars, sim_vars, run_vars, ui_vars, col_vars, snap_vars, ani_vars, gc_vars, net_vars>>

InitSel == SelInit /\ OthersIdle
NextSel == SelSelect /\ UNCHANGED others_vars
SpecSel == InitSel /\ [][NextSel]_vars

InitCross == CrossInit /\ OthersIdle
NextCross == CrossCrossover /\ UNCHANGED others_vars
SpecCross == InitCross /\ [][NextCross]_vars

InitMut == MutInit /\ OthersIdle
NextMut == MutMutate /\ UNCHANGED others_vars
SpecMut == InitMut /\ [][NextMut]_vars

InitTwoRuns == TwoRunsInit /\ OthersIdle
NextTwoRuns == \E instance \in {"a", "b"} : TwoRunsStep(instance) /\ UNCHANGED others_vars
SpecTwoRuns == InitTwoRuns /\ [][NextTwoRuns]_vars

InitChrom == ChromInit /\ OthersIdle
NextChrom ==
    \/ ChromAt /\ UNCHANGED others_vars
    \/ ChromSlice /\ UNCHANGED others_vars
SpecChrom == InitChrom /\ [][NextChrom]_vars

InitAnalyze == AnalyzeInit /\ OthersIdle
NextAnalyze == AnalyzeRun /\ UNCHANGED others_vars
SpecAnalyze == InitAnalyze /\ [][NextAnalyze]_vars

\* step and evolve on a simulation, and the snapshot evolve takes on any counters
InitCounters == InitSnap \/ InitSim
NextCounters ==
    \/ snap_pc # "idle" /\ NextSnap
    \/ snap_pc = "idle" /\ NextSim
SpecCounters == InitCounters /\ [][NextCounters]_vars

\* step and evolve on a simulation, and the collision phase of step on a world with
\* positions
InitWorld == InitCol \/ InitSim
NextWorld ==
    \/ col_pc # "idle" /\ NextCol
    \/ col_pc = "idle" /\ NextSim
SpecWorld == InitWorld /\ [][NextWorld]_vars

\* evolve called directly with any strategies, or by a simulation
InitEvolve == InitGA \/ InitSim
NextEvolve ==
    \/ ga_pc # "idle" /\ NextGA
    \/ ga_pc = "idle" /\ NextSim
SpecEvolve == InitEvolve /\ [][NextEvolve]_vars

(***************************************************************************)
(* Properties of evolve, step and train                                    *)
(***************************************************************************)
\* A call of step (alone or inside train) happened: every call changes age_ or generation_
StepTaken == age_' # age_ \/ generation_' # generation_

\* The step ran simulation::evolve
Evolved == generation_' # generation_

\* C1: every call of evolve that succeeds returns a population with exactly as many
\* individuals as the one passed in, and a simulation whose evolve succeeded holds as
\* many animals after it as before.
C1_EvolveKeepsPopulationSize ==
    /\ [](ga_pc = "done" /\ ga_out.ok
              => Len(ga_out.population) = Len(ga_in.population))
    /\ [][Evolved /\ sim_result'.kind = "stats" => Len(animals') = Len(animals)]_vars

C1_Witness ==
    /\ ga_pc = "done" /\ ga_out.ok
    /\ Len(ga_in.population) = MaxPopulation
    /\ Len(ga_out.population) = MaxPopulation

StatisticsOf(ga_stats, fitness_values) ==
    LET n == Len(fitness_values)
        below(x) == Cardinality({i \in 1..n : fitness_values[i] < x})
        above(x) == Cardinality({i \in 1..n : fitness_values[i] > x})
    IN /\ ga_stats.min_fitness \in Range(fitness_values)
       /\ ga_stats.max_fitness \in Range(fitness_values)
       /\ \A i \in 1..n : /\ ga_stats.min_fitness <= fitness_values[i]
                          /\ fitness_values[i] <= ga_stats.max_fitness
       /\ ga_stats.avg_fitness = <<SumSeq(fitness_values, n), n>>
       \* at most half of the values lie on either side of the median
       /\ 2 * below(ga_stats.median_fitness[1] \div ga_stats.median_fitness[2]) <= n
       /\ 2 * above((ga_stats.median_fitness[1] + ga_stats.median_fitness[2] - 1)
                        \div ga_stats.median_fitness[2]) <= n

\* C10: the statistics a generation boundary returns carry the value generation_ had
\* before its increment and the GA statistics of the fitness of the animals as they were
\* when evolve was called (food eaten, inverted against the maximum in reverse mode), not
\* of the offspring.
C10_EvolveReturnsCompletedGeneration ==
    [][Evolved /\ sim_result'.kind = "stats" =>
         /\ sim_result'.generation = generation_
         /\ Len(individuals') = Len(animals)
         /\ \A i \in DOMAIN animals :
                IF config.genetic.reverse
                THEN individuals'[i] <= sim_result'.ga_stats.max_fitness
                ELSE individuals'[i] >= animals[i].food_eaten
         /\ StatisticsOf(sim_result'.ga_stats, individuals')]_vars

C10_Witness ==
    /\ sim_result.kind = "stats" /\ sim_result.generation = 1
    /\ sim_result.ga_stats.max_fitness > sim_result.ga_stats.min_fitness
    /\ Len(individuals) = MaxAnimals

\* C6: evolve on an empty population returns k_invalid_population_size; a failed
\* selection or offspring construction makes evolve return that error; an error result
\* carries no population, and a population that is returned is never shorter than the
\* one passed in.
C6_EvolveErrorsReturnNoPopulation ==
    ga_pc = "done" =>
        /\ ga_in.population = <<>>
               => ~ga_out.ok /\ ga_out.error = "k_invalid_population_size"
        /\ (/\ ga_in.population # <<>>
            /\ ga_in.ga.selection.kind = "tournament"
            /\ ga_in.ga.selection.tournament_size = 0)
               => ~ga_out.ok /\ ga_out.error = "k_invalid_parent_size"
        /\ ga_in.ga.construction = {FALSE} => ~ga_out.ok
        /\ ~ga_out.ok => /\ "population" \notin DOMAIN ga_out
                         /\ ga_out.error \in {"k_invalid_population_size",
                                              "k_invalid_parent_size",
                                              "k_invalid_chromosome"}
        /\ ga_out.ok => /\ ga_in.population # <<>>
                        /\ Len(ga_out.population) = Len(ga_in.population)

C6_Witness ==
    /\ ga_pc = "done" /\ ~ga_out.ok
    /\ ga_out.error = "k_invalid_chromosome"
    /\ ga_out.discarded >= 1

(***************************************************************************)
(* Properties of the batch runner                                          *)
(***************************************************************************)
\* Some task ended with an exception
TaskFailed == \E t \in Tasks : tasks[t].state = "failed"

\* The loop of get() has gone through every task: the sweep finished with no failure
SweepFinished == run_pc \in {"set_done", "join", "save", "returned"}

\* C3: appends to the log never overlap (one task at most is inside the guarded block),
\* and when the sweep finishes with no task failure the log holds exactly
\* NumConfigs * Iterations * Generations entries, one for every
\* (configuration, iteration, generation).
C3_LogHoldsEveryTriple ==
    /\ Cardinality({t \in Tasks : tasks[t].pc = "push"}) <= 1
    /\ \A t \in Tasks : tasks[t].pc = "push" <=> log_mutex = t
    /\ SweepFinished =>
           /\ SumSeq([t \in Tasks |-> Len(log_entries[t])], NumConfigs)
                  = NumConfigs * Iterations * Generations
           /\ \A t \in Tasks : \A iter \in 0..(Iterations - 1) : \A gen \in 0..(Generations - 1) :
                  Cardinality({i \in DOMAIN log_entries[t] :
                                   log_entries[t][i] = <<iter, gen>>}) = 1

C3_Witness ==
    /\ run_pc = "returned" /\ results_saved
    /\ \A t \in Tasks : Len(log_entries[t]) = Iterations * Generations

\* C5 as claimed: a task that fails does not abort the sweep; run() goes on to set the
\* done flag, join the monitor and save the results of the other tasks.
C5_TaskFailureDoesNotAbortSweep ==
    TaskFailed => run_pc \notin {"unwinding", "terminated"}

\* C7: of two entries of the same task and iteration, the one appended first has the
\* smaller generation index.
C7_GenerationsInOrder ==
    \A t \in Tasks : \A i, j \in DOMAIN log_entries[t] :
        (i < j /\ log_entries[t][i][1] = log_entries[t][j][1])
            => log_entries[t][i][2] < log_entries[t][j][2]

C7_Witness ==
    \E t, u \in Tasks :
        /\ t # u
        /\ tasks[t].state = "running" /\ tasks[u].state = "running"
        /\ Len(log_entries[t]) >= 2 /\ Len(log_entries[u]) >= 1
        /\ log_entries[t][1][1] = log_entries[t][2][1]

\* C8: the monitor stays in its loop while the done flag is not set, and leaves it only
\* when the flag is set; once the flag is set it logs one summary line and ends; the flag
\* is set only when every task has finished, so the summary reports
\* NumConfigs * Iterations units; and run() gets past the join, and returns, only after
\* the monitor has ended (which it then does).
C8_MonitorEndsWithOneSummary ==
    /\ [](summary_lines = IF mon_pc = "exited" THEN 1 ELSE 0)
    /\ [](mon_pc \in {"check", "sleep"} \/ (mon_pc = "not_started" /\ run_pc = "start")
              \/ (mon_pc = "exited" /\ is_done))
    /\ [](is_done => /\ \A t \in Tasks : tasks[t].state = "done"
                     /\ done_steps = NumConfigs * Iterations)
    /\ [](mon_pc = "exited" => final_steps = NumConfigs * Iterations)
    /\ [](run_pc \in {"save", "returned"} => mon_pc = "exited")
    /\ (is_done ~> mon_pc = "exited")
    /\ (is_done ~> run_pc = "returned")

C8_Witness ==
    /\ run_pc = "returned" /\ mon_pc = "exited"
    /\ summary_lines = 1 /\ final_steps = NumConfigs * Iterations

(***************************************************************************)
(* Properties of the simulation window                                     *)
(***************************************************************************)
\* C4 as claimed: at any moment at most one thread is inside step, train, evolve,
\* spawn_animal, spawn_food or the replacement of the simulation.
C4_SimulationNeverMutatedConcurrently == Cardinality(Mutators) <= 1

(***************************************************************************)
(* Properties of the world                                                 *)
(***************************************************************************)
\* C11: a call of step, whether it ends in evolve or not and whether evolve returns or
\* throws, leaves the world with as many animals and as many foods as before; the
\* collision phase leaves as many animals and as many foods as it found, every food it
\* found still in the world, at its old position or at a position randomize_position
\* can give.
C11_StepKeepsWorldSizes ==
    /\ [][StepTaken => Len(animals') = Len(animals) /\ foods' = foods]_vars
    /\ [](col_pc = "done"
              => /\ Len(col_out.animals) = Len(col_in.animals)
                 /\ Len(col_out.foods) = Len(col_in.foods)
                 /\ \A f \in DOMAIN col_in.foods :
                        col_out.foods[f] = col_in.foods[f] \/ col_out.relocated[f] > 0)

C11_Witness ==
    /\ col_pc = "done"
    /\ Len(col_in.animals) = 1 /\ Len(col_in.foods) = 2
    /\ \A f \in DOMAIN col_in.foods : col_out.relocated[f] > 0

\* The square of the distance between two positions, in 1/RngSteps^2
Distance2(p, q) == (p[1] - q[1]) * (p[1] - q[1]) + (p[2] - q[2]) * (p[2] - q[2])

\* The animal stands within food_size + bird_size of the position
Near(animal, food_position) ==
    Distance2(animal.position, food_position)
        <= (col_in.config.world.food_size + col_in.config.world.bird_size)
               * (col_in.config.world.food_size + col_in.config.world.bird_size)

\* The times the counter of animal a was incremented by the call
Increment(a) == col_out.animals[a].food_eaten - col_in.animals[a].food_eaten

\* The animals before animal a in the vector
Earlier(a) == 1..(a - 1)

MaxObserved == Max({snap_in.animals[a].food_eaten : a \in DOMAIN snap_in.animals})

C14_RotationWithinTurn == ani.rotation >= 0 /\ ani.rotation < k_two_pi

Swept(params) ==
    [brain_neurons     |-> params.brain_eye.num_neurons,
     eye_fov_range     |-> params.brain_eye.fov_range,
     eye_fov_angle_deg |-> params.brain_eye.fov_angle_deg,
     eye_cells         |-> params.brain_eye.num_cells,
     ga_mut_chance     |-> params.genetic.mutation_chance,
     ga_mut_coeff      |-> params.genetic.mutation_coeff]

\* C16 as claimed: the list holds as many configurations as the product of the sizes of
\* the axes; every combination of one value per axis is, each value in its own field,
\* the swept parameters of exactly one configuration of the list; and no two
\* configurations of the list are equal.
C16_CombinationsAreCartesianProduct ==
    gc_pc = "done" =>
        /\ Len(combinations)
               = Len(options.brain_neurons) * Len(options.eye_fov_range)
                   * Len(options.eye_fov_angle_deg) * Len(options.eye_cells)
                   * Len(options.ga_mut_chance) * Len(options.ga_mut_coeff)
        /\ \A choice \in [Axes -> 1..MaxAxisValues] :
               (\A axis \in Axes : choice[axis] <= Len(options[axis]))
                   => Cardinality({k \in DOMAIN combinations :
                          Swept(combinations[k])
                              = [axis \in Axes |-> options[axis][choice[axis]]]}) = 1
        /\ \A k, l \in DOMAIN combinations :
               k # l => combinations[k] # combinations[l]

(***************************************************************************)
(* Properties of network::from_weights and network::weights                *)
(***************************************************************************)
\* C17: whenever from_weights(topology, W) produced a network, weights() of that network
\* returns W: the same length and the same value at every index.
C17_WeightsRoundTrip ==
    net_pc = "flattened" =>
        /\ Len(net_flat) = Len(net_weights)
        /\ \A k \in DOMAIN net_weights : net_flat[k] = net_weights[k]

\* A network of two layers of one neuron each, built from weights that tell each bias
\* from the connection weight after it, has been flattened again.
C17_Witness ==
    /\ net_pc = "flattened"
    /\ net_topology = <<1, 1, 1>>
    /\ net_weights[1] # net_weights[2]
    /\ net_weights[3] # net_weights[4]

\* The number of weights a topology requires
RECURSIVE Required(_, _)
Required(topology, i) ==
    IF i > Len(topology) - 1 THEN 0
    ELSE (topology[i] + 1) * topology[i + 1] + Required(topology, i + 1)

\* C18 as claimed: a call of from_weights always returns a result; it is InvalidLayerCount
\* when the topology has fewer than 2 entries and, for a topology of 2 or more layers that
\* all have neurons, NotEnoughWeights when there are fewer weights than the topology
\* requires, TooManyWeights when there are more, and a network when there are exactly
\* as many; and a network is returned only when the numbers match.
C18_FromWeightsResults ==
    net_pc # "ready" /\ net_pc # "idle" =>
        /\ net_result.kind = "returned"
        /\ Len(net_topology) < 2 => net_result.result.error = "k_invalid_layer_count"
        /\ Len(net_topology) >= 2 /\ (\A i \in DOMAIN net_topology : net_topology[i] > 0) =>
               /\ Len(net_weights) < Required(net_topology, 1)
                      => net_result.result.error = "k_not_enough_weights"
               /\ Len(net_weights) > Required(net_topology, 1)
                      => net_result.result.error = "k_too_many_weights"
               /\ Len(net_weights) = Required(net_topology, 1) => net_result.result.ok
        /\ net_result.result.ok =>
               Len(net_topology) >= 2 /\ Len(net_weights) = Required(net_topology, 1)

(***************************************************************************)
(* Properties of the chromosomes of the simulation                         *)
(***************************************************************************)
\* C19: the chromosome of every animal of the world, and so of every individual made
\* from one, has as many genes as the brain of the configured topology has weights;
\* the offspring of evolve have become the animals of the world when it returns, and a
\* generation boundary on a world with animals never fails: no offspring is refused
\* for its number of genes.
C19_ChromosomeLengthIsWeightCount ==
    /\ \A i \in DOMAIN animals :
           /\ Len(animals[i].brain) = brain_weight_count(config)
           /\ Len(from_animal(animals[i]).chromosome) = brain_weight_count(config)
    /\ sim_result.kind \in {"threw", "fault"} => animals = <<>>

\* evolve has replaced two animals by offspring twice
C19_Witness ==
    /\ sim_result.kind = "stats"
    /\ generation_ = 2
    /\ Len(animals) = 2
    /\ \A i \in DOMAIN animals : Len(animals[i].brain) = 6

(***************************************************************************)
(* Properties of the selection strategies                                  *)
(***************************************************************************)
SelFitness(i) == op_in.population[i].fitness

\* C21: tournament_selection(k, reversed).select on a non-empty population with k >= 1
\* returns an index of the population; the candidates drawn are min(k, size) pairwise
\* distinct indices, the index returned is one of them and its fitness is the largest
\* (the smallest if reversed) among theirs, so with k >= size it is the largest (the
\* smallest) of the whole population; with k = 0 or an empty population the call
\* returns an error.
C21_TournamentPicksExtremeCandidate ==
    op_pc = "done" /\ op_in.kind = "select" /\ op_in.selection.kind = "tournament" =>
        LET k == op_in.selection.tournament_size
            n == Len(op_in.population)
            candidates == op_out.tournament_indices
            picked == op_out.result.index
            Extreme(indices, i) ==
                \A j \in indices :
                    IF op_in.selection.reversed THEN SelFitness(i) <= SelFitness(j)
                                                ELSE SelFitness(i) >= SelFitness(j)
        IN IF n = 0 \/ k = 0
           THEN ~op_out.result.ok
           ELSE /\ op_out.result.ok
                /\ picked \in 1..n
                /\ Len(candidates) = (IF k < n THEN k ELSE n)
                /\ \A i, j \in DOMAIN candidates : i # j => candidates[i] # candidates[j]
                /\ picked \in Range(candidates)
                /\ Extreme(Range(candidates), picked)
                /\ k >= n => Extreme(1..n, picked)

\* A reversed tournament of two among three individuals of different fitness has
\* returned the less fit of its two candidates, which is not the least fit of all.
C21_Witness ==
    /\ op_pc = "done" /\ op_in.kind = "select" /\ op_in.selection.kind = "tournament"
    /\ op_in.selection.reversed /\ op_in.selection.tournament_size = 2
    /\ Len(op_in.population) = 3
    /\ SelFitness(1) = 0 /\ SelFitness(2) = 1 /\ SelFitness(3) = 2
    /\ op_out.tournament_indices = <<3, 2>>
    /\ op_out.result.index = 2

\* The draws for which the wheel stops at individual i
WheelShare(i) ==
    {d \in RngDraws : roulette_wheel_select(op_in.population, d).index = i}

\* C22 as claimed: with reversed = false the wheel stops at the first individual whose
\* cumulative weight max(fitness, 1e-5) reaches the drawn share of the total, so the
\* shares are proportional to the weights; with reversed = true the lower of two
\* fitnesses has the larger share, which the finite set of draws shows as: the
\* individual of lower fitness is never selected for fewer draws than the other.
C22_ReversedRouletteFavoursLowFitness ==
    op_pc = "done" /\ op_in.kind = "select" /\ op_in.selection.kind = "roulette_wheel"
        /\ op_in.population # <<>> =>
        LET n == Len(op_in.population)
            total == CumulativeFitness(op_in.population, n)
            point == generate_position(op_out.draw) * total
        IN IF op_in.selection.reversed
           THEN \A i, j \in 1..n :
                    SelFitness(i) < SelFitness(j)
                        => Cardinality(WheelShare(i)) >= Cardinality(WheelShare(j))
           ELSE /\ op_out.result.ok
                /\ CumulativeFitness(op_in.population, op_out.result.index) * RngSteps
                       >= point
                /\ \A i \in 1..(op_out.result.index - 1) :
                       CumulativeFitness(op_in.population, i) * RngSteps < point

(***************************************************************************)
(* Properties of the crossover strategies                                  *)
(***************************************************************************)
CrossDone == op_pc = "done" /\ op_in.kind = "crossover"

C24_UniformCrossoverKeepsWithProbability ==
    CrossDone /\ op_in.crossover.kind = "uniform" /\ Len(op_in.parent1) = Len(op_in.parent2) =>
        LET a == op_in.parent1
            b == op_in.parent2
            p == op_in.crossover.swap_probability
            child == op_out.result.chromosome
        IN /\ op_out.result.ok
           /\ \A i \in DOMAIN a :
                  child[i] = (IF LessThanProbability(generate_position(op_out.draws[i]), p)
                              THEN a[i] ELSE b[i])
           /\ p = <<0, 1>> => child = b
           /\ p = <<1, 1>> => child = a

(***************************************************************************)
(* Properties of the mutation strategies                                   *)
(***************************************************************************)
Abs(x) == IF x < 0 THEN -x ELSE x

\* C25 as claimed: gaussian mutation never changes the length of the chromosome; with
\* probability 0 it leaves every gene as it was, whatever is drawn; with probability 1
\* and a strength other than 0 it changes every gene, each by at most the strength
\* (genes are in 1/RngSteps).
C25_GaussianMutationBounds ==
    op_pc = "done" /\ op_in.kind = "mutate" =>
        LET before == op_in.chromosome
            after == op_out.result.chromosome
            probability == op_in.mutation.mutation_probability
            strength == op_in.mutation.mutation_strength
        IN /\ op_out.result.ok
           /\ Len(after) = Len(before)
           /\ probability = <<0, 1>> => after = before
           /\ probability = <<1, 1>> /\ strength # 0 =>
                  \A i \in DOMAIN before :
                      /\ after[i] # before[i]
                      /\ Abs(after[i] - before[i]) <= strength * RngSteps

(***************************************************************************)
(* Properties of two runs from one seed                                    *)
(***************************************************************************)
Prefix(s, n) == SubSeq(s, 1, n)

C27_ChromosomeBoundsChecked ==
    op_pc = "done" =>
        LET length == Len(op_in.genes_)
        IN /\ op_in.kind = "at" =>
                  IF op_in.pos >= length
                  THEN op_out = Err("k_index_out_of_bounds")
                  ELSE op_out.ok /\ op_out.value = op_in.genes_[op_in.pos + 1]
           /\ op_in.kind = "slice" =>
                  /\ (\E i \in op_in.start..(op_in.start + op_in.count - 1) : i >= length)
                         => op_out = Err("k_index_out_of_bounds")
                  /\ op_in.start < length /\ op_in.start + op_in.count <= length
                         => /\ op_out.ok
                            /\ op_out.span = [offset |-> op_in.start, size |-> op_in.count]
                  /\ op_out.ok => op_out.span.offset + op_out.span.size <= length

(***************************************************************************)
(* Properties of run_analysis                                              *)
(***************************************************************************)
\* C28 as claimed: the analysis of any log, an empty one and one of a single generation
\* included, returns without a fault and without reading the last element of an empty
\* vector; it reports improvement rates exactly when the log holds two generations or
\* more, and their divisor is then not 0.
C28_AnalysisOfShortLogs ==
    op_pc = "done" /\ op_in.kind = "analyze" =>
        LET generations == {op_in.input_data[e].g : e \in DOMAIN op_in.input_data}
        IN /\ op_out.kind = "returned"
           /\ op_out.final_stats # <<>>
           /\ op_out.improvement_rates # <<>> <=> Cardinality(generations) >= 2
           /\ op_out.improvement_rates # <<>> =>
                  /\ op_out.improvement_rates[1].min_fitness[2] # 0
                  /\ op_out.improvement_rates[1].avg_fitness[2] # 0

(***************************************************************************)
(* Properties of the counter of completed simulations                      *)
(***************************************************************************)
\* The entries in the shared log
LogSize == SumSeq([t \in Tasks |-> Len(log_entries[t])], NumConfigs)

\* C29: at every moment of a sweep the log holds at least generations * c entries, c
\* being the value of done_steps, and c is at most N * iterations; done_steps counts
\* each iteration a task has gone through once, and every iteration counted has all
\* the entries of its generations in the log.
C29_CounterFollowsLog ==
    /\ LogSize >= Generations * done_steps
    /\ done_steps <= NumConfigs * Iterations
    /\ done_steps = SumSeq([t \in Tasks |-> tasks[t].iter], NumConfigs)
    /\ \A t \in Tasks : \A iter \in 0..(tasks[t].iter - 1) : \A gen \in 0..(Generations - 1) :
           Cardinality({i \in DOMAIN log_entries[t] : log_entries[t][i] = <<iter, gen>>}) = 1

\* One simulation has been counted while a task holds the lock to append an entry of
\* an iteration that is not counted yet
C29_Witness ==
    /\ done_steps = 1
    /\ LogSize > Generations * done_steps
    /\ \E t \in Tasks : tasks[t].state = "running" /\ tasks[t].pc = "push"

(***************************************************************************)
(* Properties of a failed evolution                                        *)
(***************************************************************************)
\* C30: a step whose call of evolve throws leaves the age as try_evolving had it on
\* entering evolve, and the generation counter, the animals and the foods as they were
\* before the step, so that the generation counter moves only when the animals are
\* replaced.
C30_FailedEvolveLeavesSimulationUnchanged ==
    [][sim_result'.kind = "threw" =>
           /\ age_' = age_ + 1
           /\ generation_' = generation_
           /\ animals' = animals
           /\ foods' = foods]_vars

====
